---- MODULE Spec2Model ----
(***************************************************************************)
(* Startup, exposure filtering and tool registration of the GraphQL MCP    *)
(* server (src/src/index.js, class GraphQLMCPServer, lines 1-1246).        *)
(*                                                                         *)
(* Text is modelled as a sequence of tokens: an identifier chunk is one    *)
(* token, the separators "." and "_" are tokens of their own, so that      *)
(* split('.'), replace(/\./g, '_') and string equality are computed.       *)
(*                                                                         *)
(* Spec is the process: startup, registration, invocations, restarts.      *)
(* TypeSpec applies the pure functions of the type algebra                 *)
(* (getBaseType, getTypeDescription, generateSelectionSet,                 *)
(* parseArgumentValue, generateInputSchema, getNestedField, the argument   *)
(* documentation, the executor's request) to every TypeRef of up to        *)
(* MaxWrappers wrappers and to a set of field paths.                       *)
(* HttpSpec is runHttpServer: the middlewares, the routes of /mcp and the  *)
(* session map, with the POST handler split at its await.                  *)
(***************************************************************************)
EXTENDS Naturals, Integers, Sequences, FiniteSets, TLC

\* ------------------------------------------------------------------ bounds

\* Process lifetimes (one start plus restarts against the same exposed.yaml).
MaxRuns == 2
\* Tool invocations accepted in one lifetime.
MaxCalls == 2
\* List / NonNull wrappers around the named type of a TypeRef under test.
MaxWrappers == 3

\* Transports the HTTP server creates in one lifetime.
MaxTransports == 2

\* ------------------------------------------------------------------- text

Dot == "."
Underscore == "_"

RECURSIVE SplitFrom(_, _, _)
\* String.prototype.split('.'): acc holds the finished segments, cur the open one.
SplitFrom(s, acc, cur) ==
    IF s = <<>> THEN Append(acc, cur)
    ELSE IF Head(s) = Dot THEN SplitFrom(Tail(s), Append(acc, cur), <<>>)
    ELSE SplitFrom(Tail(s), acc, Append(cur, Head(s)))

Split(fieldPath) == SplitFrom(fieldPath, <<>>, <<>>)

\* fieldPath.replace(/\./g, '_')
ReplaceDots(fieldPath) ==
    [i \in 1..Len(fieldPath) |-> IF fieldPath[i] = Dot THEN Underscore ELSE fieldPath[i]]

\* ------------------------------------------------------------------ types

\* A TypeRef is a finite chain of wrappers, outermost first, over a named type.
Named(n) == [wrappers |-> <<>>, name |-> n]
NonNull(t) == [wrappers |-> <<"NON_NULL">> \o t.wrappers, name |-> t.name]
List(t) == [wrappers |-> <<"LIST">> \o t.wrappers, name |-> t.name]

isNonNullType(t) == t.wrappers # <<>> /\ Head(t.wrappers) = "NON_NULL"
isListType(t) == t.wrappers # <<>> /\ Head(t.wrappers) = "LIST"
ofType(t) == [wrappers |-> Tail(t.wrappers), name |-> t.name]

\* An unwrap that takes off one NonNull, one List and one NonNull, no more.
getBaseTypeOneListLayer(t) ==
    LET a == IF isNonNullType(t) THEN ofType(t) ELSE t
        b == IF isListType(a) THEN ofType(a) ELSE a
    IN IF isListType(a) /\ isNonNullType(b) THEN ofType(b) ELSE b

RECURSIVE getBaseType(_)
\* while (isNonNullType(baseType) || isListType(baseType)) baseType = baseType.ofType
getBaseType(t) ==
    IF isNonNullType(t) \/ isListType(t) THEN getBaseType(ofType(t)) ELSE t

\* The kinds of the named types of the schema.
ScalarTypeNames == {"ID", "String", "Int", "Float", "Boolean", "DateTime"}
EnumTypeNames == {"Role", "Unit", "Empty"}
InputObjectTypeNames == {"UserInput", "FilterInput"}

\* GraphQLEnumType.getValues(): the names of the declared values, in order.
getValues(t) ==
    CASE t.name = "Role" -> <<"ADMIN", "USER">>
      [] t.name = "Unit" -> <<"ONLY">>
      [] OTHER -> <<>>

isScalarType(t) == t.wrappers = <<>> /\ t.name \in ScalarTypeNames
isEnumType(t) == t.wrappers = <<>> /\ t.name \in EnumTypeNames
isInputObjectType(t) == t.wrappers = <<>> /\ t.name \in InputObjectTypeNames

RECURSIVE typeToString(_)
\* graphql-js toString() of a type, which `${baseType}` calls.
typeToString(t) ==
    IF isNonNullType(t) THEN typeToString(ofType(t)) \o <<"!">>
    ELSE IF isListType(t) THEN <<"[">> \o typeToString(ofType(t)) \o <<"]">>
    ELSE <<t.name>>

\* ----------------------------------------------------------------- schema

NoArgs == <<>>
Arg(n, t) == [name |-> n, type |-> t]
Field(n, t, args) == [name |-> n, type |-> t, args |-> args]
\* "no such field" / null
NoField == [name |-> <<>>, type |-> Named("null"), args |-> NoArgs]

nGetUser == <<"getUser">>
nListPosts == <<"listPosts">>
nApi == <<"api">>
nGet == <<"get">>
nLength == <<"length">>
nCreateUser == <<"createUser">>
nSearch == <<"search">>
nId == <<"id">>
nName == <<"name">>
nFriend == <<"friend">>
nTitle == <<"title">>
nRole == <<"role">>
nPosts == <<"posts">>
nAvatar == <<"avatar">>
nAuthor == <<"author">>
nLastPost == <<"lastPost">>
nWidgets == <<"widgets">>
nApiGet == <<"api", "_", "get">>
\* a query root field whose own name ends in _mutation
nGetUserMutation == <<"getUser", "_", "mutation">>

UserFields ==
    [f \in {nId, nName, nRole, nFriend, nLastPost, nPosts, nAvatar} |->
        CASE f = nId -> Field(nId, NonNull(Named("ID")), NoArgs)
          [] f = nName -> Field(nName, Named("String"), NoArgs)
          [] f = nRole -> Field(nRole, Named("Role"), NoArgs)
          [] f = nFriend -> Field(nFriend, Named("User"), NoArgs)
          [] f = nLastPost -> Field(nLastPost, Named("Post"), NoArgs)
          [] f = nPosts -> Field(nPosts, List(Named("Post")), <<Arg(<<"first">>, Named("Int"))>>)
          [] OTHER -> Field(nAvatar, Named("String"), <<Arg(<<"size">>, NonNull(Named("Int")))>>)]

PostFields ==
    [f \in {nId, nTitle, nAuthor} |->
        CASE f = nId -> Field(nId, NonNull(Named("ID")), NoArgs)
          [] f = nTitle -> Field(nTitle, Named("String"), NoArgs)
          [] OTHER -> Field(nAuthor, NonNull(Named("User")), NoArgs)]

ApiFields ==
    [f \in {nGet, nWidgets} |->
        IF f = nGet THEN Field(nGet, Named("User"), <<Arg(nId, NonNull(Named("ID")))>>)
        ELSE Field(nWidgets, Named("Widgets"), NoArgs)]

WidgetsFields ==
    [f \in {nGet} |-> Field(nGet, Named("User"), <<Arg(nId, NonNull(Named("ID")))>>)]

\* The upstream schema as first deployed.
QueryFieldsV1 ==
    [f \in {nGetUser, nListPosts, nApi, nApiGet, nLength, nGetUserMutation} |->
        CASE f = nGetUser -> Field(nGetUser, Named("User"), <<Arg(nId, NonNull(Named("ID")))>>)
          [] f = nApiGet -> Field(nApiGet, Named("User"), <<Arg(nId, NonNull(Named("ID")))>>)
          [] f = nGetUserMutation -> Field(nGetUserMutation, Named("User"), NoArgs)
          [] f = nListPosts -> Field(nListPosts, List(Named("Post")), <<Arg(<<"limit">>, Named("Int"))>>)
          [] f = nApi -> Field(nApi, NonNull(Named("Api")), NoArgs)
          [] OTHER -> Field(nLength, Named("Int"), NoArgs)]

MutationFieldsV1 ==
    [f \in {nCreateUser, nGetUser} |->
        IF f = nCreateUser
        THEN Field(nCreateUser, Named("User"), <<Arg(nName, NonNull(Named("String")))>>)
        ELSE Field(nGetUser, Named("User"), <<Arg(nId, NonNull(Named("ID")))>>)]

\* The upstream schema after an evolution: listPosts and length are gone,
\* search is new, and there is no mutation root.
QueryFieldsV2 ==
    [f \in {nGetUser, nApi, nSearch} |->
        CASE f = nGetUser -> Field(nGetUser, Named("User"), <<Arg(nId, NonNull(Named("ID")))>>)
          [] f = nApi -> Field(nApi, NonNull(Named("Api")), NoArgs)
          [] OTHER -> Field(nSearch, List(Named("Post")), <<Arg(<<"text">>, Named("String"))>>)]

SchemaIds == {"v1", "v2"}
NoSchema == "null"

ObjectTypeNames == {"User", "Post", "Api", "Widgets"}

isObjectType(t) == t.wrappers = <<>> /\ t.name \in ObjectTypeNames

\* GraphQLObjectType.getFields()
getFields(t) ==
    CASE t.name = "User" -> UserFields
      [] t.name = "Post" -> PostFields
      [] t.name = "Widgets" -> WidgetsFields
      [] OTHER -> ApiFields

\* The order in which Object.entries(getFields()) yields the fields.
fieldOrder(t) ==
    CASE t.name = "User" -> <<nId, nName, nRole, nFriend, nLastPost, nPosts, nAvatar>>
      [] t.name = "Post" -> <<nId, nTitle, nAuthor>>
      [] t.name = "Widgets" -> <<nGet>>
      [] OTHER -> <<nGet, nWidgets>>

hasMutationType(s) == s = "v1"
queryFields(s) == IF s = "v1" THEN QueryFieldsV1 ELSE QueryFieldsV2
mutationFields(s) == MutationFieldsV1

RECURSIVE walkPathArgFree(_, _, _)
\* A walk that refuses to pass through a field that takes arguments.
walkPathArgFree(fields, pathParts, i) ==
    IF i > Len(pathParts) THEN NoField
    ELSE IF pathParts[i] \notin DOMAIN fields THEN NoField
    ELSE IF i = Len(pathParts) THEN fields[pathParts[i]]
    ELSE LET baseType == getBaseType(fields[pathParts[i]].type)
         IN IF ~isObjectType(baseType) \/ fields[pathParts[i]].args # NoArgs THEN NoField
            ELSE walkPathArgFree(getFields(baseType), pathParts, i + 1)

RECURSIVE walkPath(_, _, _)
\* The loop of getNestedField over pathParts[i..]; fields is the current level.
walkPath(fields, pathParts, i) ==
    IF i > Len(pathParts) THEN NoField
    ELSE IF pathParts[i] \notin DOMAIN fields THEN NoField
    ELSE IF i = Len(pathParts) THEN fields[pathParts[i]]
    ELSE LET baseType == getBaseType(fields[pathParts[i]].type)
         IN IF ~isObjectType(baseType) THEN NoField
            ELSE walkPath(getFields(baseType), pathParts, i + 1)

getNestedField(fields, fieldPath) == walkPath(fields, Split(fieldPath), 1)

\* ------------------------------------------------------------ type algebra

\* A rendering that answers a missing type with the word "unknown".
getTypeDescriptionUnknownForNull(type) ==
    IF type = Named("null") THEN <<"unknown">> ELSE typeToString(type)

RECURSIVE getTypeDescriptionBangInside(_)
\* A rendering that puts the non-null mark of a list inside its brackets.
getTypeDescriptionBangInside(type) ==
    LET baseType == IF isNonNullType(type) THEN ofType(type) ELSE type
        modifiers == IF isNonNullType(type) THEN <<"!">> ELSE <<>>
    IN IF isListType(baseType)
       THEN <<"[">> \o getTypeDescriptionBangInside(ofType(baseType)) \o modifiers \o <<"]">>
       ELSE <<baseType.name>> \o modifiers

RECURSIVE getTypeDescription(_)
\* The GraphQL type syntax of a TypeRef: "[", "]" and "!" are tokens.
getTypeDescription(type) ==
    LET baseType == IF isNonNullType(type) THEN ofType(type) ELSE type
        modifiers == IF isNonNullType(type) THEN <<"!">> ELSE <<>>
    IN IF isListType(baseType)
       THEN <<"[">> \o getTypeDescription(ofType(baseType)) \o <<"]">> \o modifiers
       ELSE IF isScalarType(baseType) \/ isEnumType(baseType) \/ isObjectType(baseType)
       THEN <<baseType.name>> \o modifiers
       ELSE typeToString(baseType) \o modifiers

\* ------------------------------------------------------- selection synthesis

Typename == "__typename"
\* the separator selections.join() puts between two selections
SelectionSep == "\n"
\* generateSelectionSet's null: nothing to select
NullSelection == <<>>

\* if (depth > 3)
MaxSelectionDepth == 3

\* A cap that lets the recursion run two levels further.
pastDepthCapLate(depth) == depth > MaxSelectionDepth + 2

pastDepthCap(depth) == depth > MaxSelectionDepth

\* A test that lets a field through when none of its arguments is required.
eligibleNoRequired(field) ==
    \A i \in 1..Len(field.args) : ~isNonNullType(field.args[i].type)

\* if (field.args.length === 0)
eligible(field) == Len(field.args) = 0

\* The unwrap at the head of generateSelectionSet and in its field loop:
\* one NonNull, then one List and the NonNull under it.
selectionBaseType(type) ==
    LET a == IF isNonNullType(type) THEN ofType(type) ELSE type
        b == IF isListType(a) THEN ofType(a) ELSE a
    IN IF isListType(a) /\ isNonNullType(b) THEN ofType(b) ELSE b

RECURSIVE joinWith(_, _)
\* Array.prototype.join over token sequences.
joinWith(parts, sep) ==
    IF parts = <<>> THEN <<>>
    ELSE IF Len(parts) = 1 THEN parts[1]
    ELSE parts[1] \o sep \o joinWith(Tail(parts), sep)

RECURSIVE generateSelectionSet(_, _)
RECURSIVE selectFields(_, _, _, _)

\* The field loop of generateSelectionSet over names[i..]: the selections pushed.
selectFields(baseType, names, i, depth) ==
    IF i > Len(names) THEN <<>>
    ELSE LET field == getFields(baseType)[names[i]]
             fieldBaseType == selectionBaseType(field.type)
             rest == selectFields(baseType, names, i + 1, depth)
         IN IF ~eligible(field) THEN rest
            ELSE IF isScalarType(fieldBaseType) \/ isEnumType(fieldBaseType)
            THEN <<field.name>> \o rest
            ELSE IF isObjectType(fieldBaseType)
            THEN LET subSelection == generateSelectionSet(field.type, depth + 1)
                 IN IF subSelection # NullSelection
                    THEN <<field.name \o <<"{">> \o subSelection \o <<"}">>>> \o rest
                    ELSE rest
            ELSE rest

generateSelectionSet(type, depth) ==
    LET baseType == selectionBaseType(type)
    IN IF isScalarType(baseType) \/ isEnumType(baseType) THEN NullSelection
       ELSE IF isObjectType(baseType)
       THEN IF pastDepthCap(depth) THEN <<Typename>>
            ELSE LET selections == selectFields(baseType, fieldOrder(baseType), 1, depth)
                 IN IF Len(selections) > 0
                    THEN joinWith(selections, <<SelectionSep>>)
                    ELSE <<Typename>>
       ELSE <<Typename>>

\* ------------------------------------------------------------ input schema

\* A list test that does not look under an outer NonNull.
isListTypeCheckOutermostOnly(type) == isListType(type)

\* isListTypeCheck: a List, under at most one NonNull (false for no type).
isListTypeCheck(type) ==
    IF type = Named("null") THEN FALSE
    ELSE isListType(IF isNonNullType(type) THEN ofType(type) ELSE type)

ZodRule(rule, values) == [rule |-> rule, values |-> values]

\* A mapping that gives Int the rule of Float.
elementRuleIntAsNumber(graphqlType) ==
    IF isScalarType(graphqlType)
    THEN CASE graphqlType.name \in {"String", "ID"} -> ZodRule("string", {})
           [] graphqlType.name \in {"Int", "Float"} -> ZodRule("number", {})
           [] graphqlType.name = "Boolean" -> ZodRule("boolean", {})
           [] OTHER -> ZodRule("any", {})
    ELSE ZodRule("any", {})

\* The zod rule generateInputSchema picks for the base type of an argument:
\* z.string(), z.number().int(), z.number(), z.boolean(), z.literal(v),
\* z.enum([...]), z.any().
elementRule(graphqlType) ==
    IF isScalarType(graphqlType)
    THEN CASE graphqlType.name \in {"String", "ID"} -> ZodRule("string", {})
           [] graphqlType.name = "Int" -> ZodRule("int", {})
           [] graphqlType.name = "Float" -> ZodRule("number", {})
           [] graphqlType.name = "Boolean" -> ZodRule("boolean", {})
           [] OTHER -> ZodRule("any", {})
    ELSE IF isEnumType(graphqlType)
    THEN LET enumNames == getValues(graphqlType)
         IN IF Len(enumNames) = 1 THEN ZodRule("literal", {enumNames[1]})
            ELSE IF Len(enumNames) > 1
            THEN ZodRule("enum", {enumNames[i] : i \in 1..Len(enumNames)})
            ELSE ZodRule("string", {})
    ELSE ZodRule("any", {})

\* The rule of one argument: the element rule, in z.array() when the
\* argument is a list, .optional() unless it is NonNull.
zodType(arg) ==
    [element |-> elementRule(getBaseType(arg.type)),
     array |-> isListTypeCheck(arg.type),
     optional |-> ~isNonNullType(arg.type)]

\* generateInputSchema: the properties object, one rule per argument name
\* ({} when there are no arguments).
generateInputSchema(args) ==
    [n \in {args[i].name : i \in 1..Len(args)} |->
        zodType(CHOOSE a \in {args[i] : i \in 1..Len(args)} : a.name = n)]

\* ------------------------------------------------- argument documentation

\* The fields of the schema's input objects: one refers to itself, and the
\* two refer to each other.
UserInputFields ==
    [f \in {nName, nRole, <<"manager">>, <<"filter">>} |->
        CASE f = nName -> Field(nName, NonNull(Named("String")), NoArgs)
          [] f = nRole -> Field(nRole, Named("Role"), NoArgs)
          [] f = <<"manager">> -> Field(<<"manager">>, Named("UserInput"), NoArgs)
          [] OTHER -> Field(<<"filter">>, Named("FilterInput"), NoArgs)]

FilterInputFields ==
    [f \in {<<"and">>, <<"owner">>} |->
        IF f = <<"and">>
        THEN Field(<<"and">>, List(NonNull(Named("FilterInput"))), NoArgs)
        ELSE Field(<<"owner">>, Named("UserInput"), NoArgs)]

\* GraphQLInputObjectType.getFields()
getInputFields(t) == IF t.name = "UserInput" THEN UserInputFields ELSE FilterInputFields

\* The order in which Object.entries(getFields()) yields the input fields.
inputFieldOrder(t) ==
    IF t.name = "UserInput" THEN <<nName, nRole, <<"manager">>, <<"filter">>>>
    ELSE <<<<"and">>, <<"owner">>>>

\* the cap of `depth < 3`
DescribeDepthCap == 3

RECURSIVE describeInputObjectTypeCapFour(_, _)
\* A description that follows nested input objects one level further.
describeInputObjectTypeCapFour(inputType, depth) ==
    IF ~isInputObjectType(inputType) THEN <<>>
    ELSE LET indent == [k \in 1..(depth + 1) |-> "  "]
             fields == getInputFields(inputType)
             order == inputFieldOrder(inputType)
             described[i \in 0..Len(order)] ==
                 IF i = 0
                 THEN <<"\n">> \o indent \o <<"**", inputType.name, "**", "Input Object:", "\n">>
                 ELSE LET field == fields[order[i]]
                          baseType == getBaseType(field.type)
                      IN described[i - 1]
                         \o indent \o <<"  - ">> \o field.name \o <<"(">>
                         \o getTypeDescription(field.type)
                         \o <<")", (IF isNonNullType(field.type) THEN "(required)" ELSE "(optional)"), "\n">>
                         \o (IF isInputObjectType(baseType) /\ depth < DescribeDepthCap + 1
                             THEN describeInputObjectTypeCapFour(baseType, depth + 1)
                             ELSE IF isEnumType(baseType)
                             THEN indent \o <<"    Enum values:">>
                                  \o joinWith([k \in 1..Len(getValues(baseType)) |->
                                                  <<getValues(baseType)[k]>>], <<", ">>)
                                  \o <<"\n">>
                             ELSE <<>>)
         IN described[Len(order)]

RECURSIVE describeInputObjectType(_, _)
\* described[i] is `description` after the first i fields; described[0] is the
\* header line.
describeInputObjectType(inputType, depth) ==
    IF ~isInputObjectType(inputType) THEN <<>>
    ELSE LET indent == [k \in 1..(depth + 1) |-> "  "]
             fields == getInputFields(inputType)
             order == inputFieldOrder(inputType)
             described[i \in 0..Len(order)] ==
                 IF i = 0
                 THEN <<"\n">> \o indent \o <<"**", inputType.name, "**", "Input Object:", "\n">>
                 ELSE LET field == fields[order[i]]
                          baseType == getBaseType(field.type)
                      IN described[i - 1]
                         \o indent \o <<"  - ">> \o field.name \o <<"(">>
                         \o getTypeDescription(field.type)
                         \o <<")", (IF isNonNullType(field.type) THEN "(required)" ELSE "(optional)"), "\n">>
                         \o (IF isInputObjectType(baseType) /\ depth < DescribeDepthCap
                             THEN describeInputObjectType(baseType, depth + 1)
                             ELSE IF isEnumType(baseType)
                             THEN indent \o <<"    Enum values:">>
                                  \o joinWith([k \in 1..Len(getValues(baseType)) |->
                                                  <<getValues(baseType)[k]>>], <<", ">>)
                                  \o <<"\n">>
                             ELSE <<>>)
         IN described[Len(order)]

\* `Type: ...` of one argument, empty when its base type is of no known kind.
typeInfo(baseType) ==
    IF isScalarType(baseType) THEN <<"Scalar type:", baseType.name>>
    ELSE IF isEnumType(baseType)
    THEN <<"Enum type:", baseType.name, "with values:">>
         \o joinWith([k \in 1..Len(getValues(baseType)) |-> <<getValues(baseType)[k]>>],
                     <<", ">>)
    ELSE IF isInputObjectType(baseType) THEN <<"Input object type:", baseType.name>>
    ELSE IF isObjectType(baseType) THEN <<"Object type:", baseType.name>>
    ELSE <<>>

\* documented[i] is `documentation` after the first i arguments.
generateArgumentDocumentation(args) ==
    IF Len(args) = 0 THEN <<"No arguments required.">>
    ELSE LET documented[i \in 0..Len(args)] ==
                 IF i = 0 THEN <<"Arguments:", "\n">>
                 ELSE LET arg == args[i]
                          baseType == getBaseType(arg.type)
                      IN documented[i - 1]
                         \o <<"  - ">> \o arg.name \o <<"(">> \o getTypeDescription(arg.type)
                         \o <<")", (IF isNonNullType(arg.type) THEN "(required)" ELSE "(optional)"), ":", "No description", "\n">>
                         \o (IF typeInfo(baseType) # <<>>
                             THEN <<"    Type:">> \o typeInfo(baseType) \o <<"\n">>
                             ELSE <<>>)
                         \o (IF isInputObjectType(baseType)
                             THEN describeInputObjectType(baseType, 0)
                             ELSE <<>>)
         IN documented[Len(args)]

\* -------------------------------------------------------- argument values

\* A value a client hands over for one argument: a string (whose text is or
\* is not JSON) or something that is no string.
StringValue(text, isJson) == [js |-> "string", text |-> text, isJson |-> isJson]
NumberValue(text) == [js |-> "number", text |-> text, isJson |-> TRUE]
\* What JSON.parse makes of the string's text.
JsonParsed(value) == [js |-> "decoded", text |-> value.text, isJson |-> TRUE]

\* The value the clients of the model hand to a tool for each argument.
CallArgValues == {StringValue("[1,2]", TRUE)}

ArgValues ==
    { StringValue("[1,2]", TRUE), StringValue("{\"name\":\"x\"}", TRUE),
      StringValue("plain", FALSE), NumberValue("7") }

parseArgumentValue(value, expectedType) ==
    IF value.js = "string"
       /\ (isInputObjectType(getBaseType(expectedType))
           \/ isListType(getBaseType(expectedType)))
    THEN IF value.isJson THEN JsonParsed(value) ELSE value
    ELSE value

\* parseArguments: args maps the names given to their values.
parseArguments(args, fieldArgs) ==
    [n \in DOMAIN args |->
        IF \E i \in 1..Len(fieldArgs) : fieldArgs[i].name = n
        THEN parseArgumentValue(args[n],
                 (CHOOSE a \in {fieldArgs[i] : i \in 1..Len(fieldArgs)} : a.name = n).type)
        ELSE args[n]]

\* ------------------------------------------------------- query composition

\* field.args.map((arg) => `$${arg.name}: ${getTypeDescription(arg.type)}`).join(', ')
variableDefinitions(field) ==
    joinWith([i \in 1..Len(field.args) |->
                 <<"$">> \o field.args[i].name \o <<":">>
                     \o getTypeDescription(field.args[i].type)], <<",">>)

\* field.args.map((arg) => `${arg.name}: $${arg.name}`).join(', ')
variableUsage(field) ==
    joinWith([i \in 1..Len(field.args) |->
                 field.args[i].name \o <<":", "$">> \o field.args[i].name], <<",">>)

\* `${lastFieldName}${variableUsage ? `(...)` : ''}${selectionSet ? ` { ... }` : ''}`
innerQuery(lastFieldName, field) ==
    LET selectionSet == generateSelectionSet(field.type, 0)
    IN lastFieldName
       \o (IF variableUsage(field) # <<>>
           THEN <<"(">> \o variableUsage(field) \o <<")">> ELSE <<>>)
       \o (IF selectionSet # NullSelection
           THEN <<"{">> \o selectionSet \o <<"}">> ELSE <<>>)

RECURSIVE wrapParentsOutermostFirst(_, _, _)
\* A wrapping loop that runs from the first parent to the last.
wrapParentsOutermostFirst(pathParts, i, inner) ==
    IF i < 0 THEN inner
    ELSE wrapParentsOutermostFirst(pathParts, i - 1,
             pathParts[Len(pathParts) - 1 - i] \o <<"{">> \o inner \o <<"}">>)

RECURSIVE wrapParents(_, _, _)
\* for (let i = pathParts.length - 2; i >= 0; i--) innerQuery = `${pathParts[i]} { ${innerQuery} }`
\* (i is the JavaScript index: pathParts[i] there is pathParts[i + 1] here)
wrapParents(pathParts, i, inner) ==
    IF i < 0 THEN inner
    ELSE wrapParents(pathParts, i - 1, pathParts[i + 1] \o <<"{">> \o inner \o <<"}">>)

\* The document the executor of a tool sends: `query` or `mutation`, named
\* after the last segment.
composeQuery(kind, fieldPath, field) ==
    LET pathParts == Split(fieldPath)
        lastFieldName == pathParts[Len(pathParts)]
    IN <<kind>> \o lastFieldName
       \o (IF variableDefinitions(field) # <<>>
           THEN <<"(">> \o variableDefinitions(field) \o <<")">> ELSE <<>>)
       \o <<"{">>
       \o wrapParents(pathParts, Len(pathParts) - 2, innerQuery(lastFieldName, field))
       \o <<"}">>

\* An executor that writes the values it was called with after the query text.
executorRequestInlined(kind, fieldPath, field, args) ==
    [query |-> composeQuery(kind, fieldPath, field)
                  \o [i \in 1..Len(field.args) |-> args[field.args[i].name].text],
     variables |-> parseArguments(args, field.args)]

\* What the executor of a tool hands to this.client.request(query, parsedArgs):
\* the document composed from the captured fieldPath and field, and the call's
\* arguments as variables.
executorRequest(kind, fieldPath, field, args) ==
    [query |-> composeQuery(kind, fieldPath, field),
     variables |-> parseArguments(args, field.args)]

\* ------------------------------------------------- persisted configuration

\* A YAML value found under exposed.queries / exposed.mutations: nothing, a
\* sequence of operation paths, or a mapping from operation path to a scalar
\* ("true" and "false" are the YAML booleans, "string" any other scalar).
MissingCat == [form |-> "missing", items |-> <<>>, entries |-> <<>>]
ListCat(items) == [form |-> "list", items |-> items, entries |-> <<>>]
MapCat(entries) == [form |-> "map", items |-> <<>>, entries |-> entries]
Entry(k, v) == [key |-> k, value |-> v]

\* What yaml.parse returns: null for an empty document, else an object that
\* may or may not carry the top-level key exposed.
NullDoc == [kind |-> "null", hasExposed |-> FALSE, queries |-> MissingCat, mutations |-> MissingCat]
BareDoc == [kind |-> "object", hasExposed |-> FALSE, queries |-> MissingCat, mutations |-> MissingCat]
Doc(q, m) == [kind |-> "object", hasExposed |-> TRUE, queries |-> q, mutations |-> m]

pGetUser == nGetUser
pListPosts == nListPosts
pApi == nApi
pApiGet == <<"api", ".", "get">>
pLength == nLength
pCreateUser == nCreateUser
pOldOp == <<"oldOp">>
pApiGetFlat == nApiGet
pApiWidgetsGet == <<"api", ".", "widgets", ".", "get">>

\* The documents exposed.yaml may hold when the process starts.
ConfigDocs ==
    { NullDoc,
      BareDoc,
      Doc(ListCat(<<>>), ListCat(<<>>)),
      Doc(ListCat(<<pGetUser, pListPosts>>), ListCat(<<pCreateUser>>)),
      Doc(ListCat(<<pGetUser>>), ListCat(<<pGetUser>>)),
      Doc(ListCat(<<>>), ListCat(<<pGetUser>>)),
      Doc(ListCat(<<pApiGet, pOldOp>>), MissingCat),
      Doc(ListCat(<<pGetUser, pListPosts, pApi, pLength>>), ListCat(<<pCreateUser, pGetUser>>)),
      Doc(ListCat(<<pOldOp, pApiGet, pApiGetFlat, pGetUser>>),
          ListCat(<<pOldOp, pGetUser, pCreateUser>>)),
      Doc(ListCat(<<pGetUser, pApiGetFlat, pOldOp, pApiGet>>),
          ListCat(<<pCreateUser, pOldOp>>)),
      Doc(ListCat(<<pApiWidgetsGet, pLength>>), MissingCat),
      Doc(ListCat(<<pGetUser, nGetUserMutation>>), ListCat(<<pGetUser, pCreateUser>>)),
      Doc(MapCat(<<>>), MapCat(<<>>)),
      Doc(MapCat(<<Entry(pGetUser, "true"), Entry(pListPosts, "false")>>),
          MapCat(<<Entry(pCreateUser, "true")>>)),
      Doc(MapCat(<<Entry(pGetUser, "false")>>), MapCat(<<Entry(pGetUser, "true")>>)),
      Doc(MapCat(<<Entry(pGetUser, "string")>>), MapCat(<<>>)),
      Doc(MapCat(<<Entry(pLength, "true")>>), MissingCat),
      Doc(MapCat(<<Entry(pGetUser, "true"), Entry(pListPosts, "true"),
                   Entry(pApi, "true"), Entry(pLength, "false")>>),
          MapCat(<<Entry(pCreateUser, "true"), Entry(pGetUser, "true")>>)) }

\* exposed.yaml on disk: absent, unparseable, or holding a document.
AbsentFile == [state |-> "absent", doc |-> NullDoc]
GarbledFile == [state |-> "garbled", doc |-> NullDoc]
ParsedFile(d) == [state |-> "parsed", doc |-> d]
Files == {AbsentFile, GarbledFile} \cup {ParsedFile(d) : d \in ConfigDocs}

\* The keys a category value holds, whichever form it has.
Keys(c) ==
    IF c.form = "list" THEN {c.items[i] : i \in 1..Len(c.items)}
    ELSE {c.entries[i].key : i \in 1..Len(c.entries)}

\* The scalar stored under key k ("missing" when there is none).
ValueOf(c, k) ==
    IF c.form = "map" /\ \E i \in 1..Len(c.entries) : c.entries[i].key = k
    THEN (CHOOSE e \in {c.entries[i] : i \in 1..Len(c.entries)} : e.key = k).value
    ELSE "missing"

\* JavaScript's  c && c.length > 0 : an array has its length; a plain object
\* has a length only as a key of that name, and true > 0 while false > 0,
\* undefined > 0 and "text" > 0 are all false.
lengthGtZero(c) ==
    CASE c.form = "list" -> Len(c.items) > 0
      [] c.form = "map" -> ValueOf(c, nLength) = "true"
      [] OTHER -> FALSE

\* for (const fieldPath of c): a plain object is not iterable (TypeError).
iterationThrows(c) == c.form = "map"

\* ------------------------------------------------------ tool registration

Tool(n, k, p, f) == [name |-> n, kind |-> k, fieldPath |-> p, field |-> f]

MutationSuffix == <<"_", "mutation">>

\* `${prefix}${fieldPath.replace(/\./g, '_')}`
toolName(prefix, fieldPath) == prefix \o ReplaceDots(fieldPath)

\* The local Set registeredToolNames: the names registered so far by this call.
registeredToolNames(registered) == {registered[i].name : i \in 1..Len(registered)}

\* A registry that accepts a name it already holds.
registerToolNeverThrows(registered, name) == FALSE

\* McpServer.registerTool throws when the name is already registered; the
\* throw lands in the entry's own catch and the entry is skipped.
registerToolThrows(registered, name) == name \in registeredToolNames(registered)

RECURSIVE queryLoopEndsAtFailure(_, _, _, _, _)
\* A loop without the entry's own try/catch: the first failure ends it.
queryLoopEndsAtFailure(fields, prefix, items, i, registered) ==
    IF i > Len(items) THEN registered
    ELSE LET fieldPath == items[i]
             field == getNestedField(fields, fieldPath)
             name == toolName(prefix, fieldPath)
         IN IF field = NoField \/ registerToolThrows(registered, name)
            THEN registered
            ELSE queryLoopEndsAtFailure(fields, prefix, items, i + 1,
                     Append(registered, Tool(name, "query", fieldPath, field)))

RECURSIVE queryLoop(_, _, _, _, _)
\* for (const fieldPath of exposed.queries) { try { ... } catch { log } }
queryLoop(fields, prefix, items, i, registered) ==
    IF i > Len(items) THEN registered
    ELSE LET fieldPath == items[i]
             field == getNestedField(fields, fieldPath)
             name == toolName(prefix, fieldPath)
         IN IF field = NoField
            THEN queryLoop(fields, prefix, items, i + 1, registered)
            ELSE IF registerToolThrows(registered, name)
            THEN queryLoop(fields, prefix, items, i + 1, registered)
            ELSE queryLoop(fields, prefix, items, i + 1,
                           Append(registered, Tool(name, "query", fieldPath, field)))

\* A naming that gives every mutation the suffix.
mutationToolNameAlwaysSuffixed(prefix, fieldPath, registered) ==
    toolName(prefix, fieldPath) \o MutationSuffix

\* The mutation's name, with the suffix when the bare name is taken.
mutationToolName(prefix, fieldPath, registered) ==
    IF toolName(prefix, fieldPath) \in registeredToolNames(registered)
    THEN toolName(prefix, fieldPath) \o MutationSuffix
    ELSE toolName(prefix, fieldPath)

RECURSIVE mutationLoop(_, _, _, _, _)
\* for (const fieldPath of exposed.mutations) { try { ... } catch { log } }
mutationLoop(fields, prefix, items, i, registered) ==
    IF i > Len(items) THEN registered
    ELSE LET fieldPath == items[i]
             field == getNestedField(fields, fieldPath)
             name == mutationToolName(prefix, fieldPath, registered)
         IN IF field = NoField
            THEN mutationLoop(fields, prefix, items, i + 1, registered)
            ELSE IF registerToolThrows(registered, name)
            THEN mutationLoop(fields, prefix, items, i + 1, registered)
            ELSE mutationLoop(fields, prefix, items, i + 1,
                              Append(registered, Tool(name, "mutation", fieldPath, field)))

\* category && category.length > 0
entersLoop(c) == c.form # "missing" /\ lengthGtZero(c)

\* A setupTools that saved the configuration on every pass.
writesBackAlways(config, s) == TRUE

\* Whether setupTools writes exposed.yaml back: it holds no write at all.
writesBack(config, s) == FALSE

\* The part of setupTools after the schema is at hand (lines 748-961), on the
\* loaded document: what it registers, whether it throws, whether it writes.
registerConfigured(config, s, queryPrefix, mutationPrefix) ==
    IF config.kind = "null" \/ ~config.hasExposed
    THEN [threw |-> TRUE, tools |-> <<>>, wrote |-> FALSE]
    ELSE IF entersLoop(config.queries) /\ iterationThrows(config.queries)
    THEN [threw |-> TRUE, tools |-> <<>>, wrote |-> FALSE]
    ELSE LET afterQueries ==
                 IF entersLoop(config.queries)
                 THEN queryLoop(queryFields(s), queryPrefix, config.queries.items, 1, <<>>)
                 ELSE <<>>
             mutationsEntered == hasMutationType(s) /\ entersLoop(config.mutations)
         IN IF mutationsEntered /\ iterationThrows(config.mutations)
            THEN [threw |-> TRUE, tools |-> afterQueries, wrote |-> FALSE]
            ELSE [threw |-> FALSE,
                  tools |-> IF mutationsEntered
                            THEN mutationLoop(mutationFields(s), mutationPrefix,
                                              config.mutations.items, 1, afterQueries)
                            ELSE afterQueries,
                  wrote |-> writesBack(config, s)]

\* ------------------------------------------------------------ the executor

\* What the upstream API answers to one request: data, or an error with a
\* message. Both are text about the operation that was asked for.
UpstreamData(d) == [ok |-> TRUE, body |-> d]
UpstreamError(m) == [ok |-> FALSE, body |-> m]
NoResponse == [ok |-> FALSE, body |-> <<>>]
UpstreamResponses(call) ==
    {UpstreamData(<<"data", "of">> \o call.tool),
     UpstreamError(<<"cannot", "serve">> \o call.tool)}

NoResult == [isError |-> FALSE, text |-> <<>>]

\* An executor whose failure carries a fixed text.
executorResultFixedText(kind, response) ==
    IF response.ok
    THEN [isError |-> FALSE, text |-> <<"JSON">> \o response.body]
    ELSE [isError |-> TRUE, text |-> <<"GraphQL", kind, "failed">>]

\* The result of an invocation: JSON.stringify(result) as text content, or
\* Error(`GraphQL ${kind} failed: ${error.message}`), which the MCP server
\* answers as an error result holding the message.
executorResult(kind, response) ==
    IF response.ok
    THEN [isError |-> FALSE, text |-> <<"JSON">> \o response.body]
    ELSE [isError |-> TRUE, text |-> <<"GraphQL", kind, "failed", ":">> \o response.body]

\* ---------------------------------------------------------- the HTTP server

\* process.env.AUTH_TOKEN: not in the environment, or there with a text.
AuthTokens ==
    {[set |-> FALSE, text |-> ""], [set |-> TRUE, text |-> ""],
     [set |-> TRUE, text |-> "s3cret"]}

\* req.headers.authorization: undefined, or a text cut after its first seven
\* characters.
AuthHeaders ==
    {<<>>, <<"Bearer ", "s3cret">>, <<"Bearer ", "wrong">>,
     <<"Basic s", "3cret">>, <<"bearer ", "s3cret">>, <<"Bearer ", "s3cret", "x">>}

\* req.headers['mcp-session-id']: undefined, or an identifier.
NoSession == "undefined"
SessionIds == {"s1", "s2"}

\* An HTTP request. body says whether express.json() can parse what it carries.
Requests ==
    {r \in [method : {"POST", "GET", "DELETE"}, path : {"/mcp", "/other"},
            authorization : AuthHeaders, sessionId : SessionIds \cup {NoSession},
            body : {"json", "malformed"}] :
        /\ r.path = "/other" => r.method = "GET"
        /\ r.method # "POST" => r.sessionId = NoSession}

\* app.use(express.json()): a body that does not parse is answered 400 by
\* express and the request goes no further.
jsonRejects(req) == req.body = "malformed"

\* `if (authToken)`: the middleware is installed for a non-empty token only.
authInstalled(token) == token.set /\ token.text # ""

\* The authentication middleware: TRUE when it answers 401, FALSE when it
\* calls next().
authRejects(token, req) ==
    LET authHeader == req.authorization
    IN IF authHeader = <<>> \/ authHeader[1] # "Bearer " THEN TRUE
       ELSE Tail(authHeader) # <<token.text>>

\* No transport.
NoTransport == 0

\* Nothing was received yet.
NoExchange ==
    [received |-> FALSE,
     req |-> [method |-> "GET", path |-> "/other", authorization |-> <<>>,
              sessionId |-> NoSession, body |-> "json"],
     status |-> 0, handler |-> "none", transport |-> NoTransport]

\* The answer to req: its status (0 while none is written), the route handler
\* that ran, and the transport the handler picked.
Exchange(req, status, handler, transport) ==
    [received |-> TRUE, req |-> req, status |-> status, handler |-> handler,
     transport |-> transport]

\* ------------------------------------------------------------- the process

\* A run() that brought the transport up before the tools were set up.
RunOrderTransportFirst == <<"setupResources", "transport", "setupTools">>

\* run(): await setupResources(); await setupTools(); then the transport.
RunOrder == <<"setupResources", "setupTools", "transport">>

StageAfter(stage) ==
    LET i == CHOOSE j \in 1..Len(RunOrder) : RunOrder[j] = stage
    IN IF i < Len(RunOrder) THEN RunOrder[i + 1] ELSE "running"

\* A schema guard that fetched whether or not a schema is at hand.
needsFetchAlways(schema) == TRUE

\* if (!this.schema) await this.fetchSchema()
needsFetch(schema) == schema = NoSchema

\* How one introspection request can end: a schema, a response without
\* __schema, or a rejected request.
FetchOutcomes == {"ok", "noEnvelope", "requestError"}

\* The status of a process whose run() promise rejected: the rejection is
\* handed to console.error and the process ends on its own.
exitCodeOnRejection == 0
\* process.exit(1) in parseArgs.
exitCodeOnBadArgs == 1

Prefixes == { <<>>, <<"q", "_">> }

Argvs ==
    [help : BOOLEAN, transport : {"stdio", "http", "ftp"}, graphqlUrl : BOOLEAN,
     queryPrefix : Prefixes, mutationPrefix : Prefixes]

VARIABLES
    argv,          \* command line and environment of the process
    file,          \* exposed.yaml on disk
    upstream,      \* the schema the upstream API serves
    pc,            \* where the process is
    schema,        \* this.schema
    exposedConfig, \* this.exposedConfig
    tools,         \* the tools registered on this.server, in order
    serving,       \* a transport is connected / the HTTP server listens
    fetchCount,    \* introspection requests issued by this process
    loadCount,     \* loadExposedConfig calls of this process
    setupCount,    \* passes through the registration loops of this process
    writes,        \* writes of exposed.yaml by this process
    exitCode,      \* the status, once pc = "exited"
    stderr,        \* diagnostics printed
    fatal,         \* why startup failed ("none" when it did not)
    calls,         \* tool invocations, in arrival order
    runNo,         \* which lifetime this is
    prevFile,      \* exposed.yaml as the previous lifetime left it
    prevUpstream,  \* the schema the previous lifetime ran against
    probe,         \* a type and a value under the type algebra's functions
    authToken,     \* process.env.AUTH_TOKEN
    transports,    \* runHttpServer's map from session ID to transport
    sessions,      \* the transports created, in order, each with its session ID
    exchange       \* the request received last and what became of it

vars == <<argv, file, upstream, pc, schema, exposedConfig, tools, serving,
          fetchCount, loadCount, setupCount, writes, exitCode, stderr, fatal,
          calls, runNo, prevFile, prevUpstream, probe,
          authToken, transports, sessions, exchange>>


\* Nothing is under the type algebra's functions.
IdleProbe ==
    [type |-> Named("null"), value |-> NumberValue("0"), applied |-> {},
     base |-> Named("null"), rendered |-> <<>>, selection |-> <<>>,
     parsed |-> NumberValue("0"), listLike |-> FALSE,
     inputSchema |-> ZodRule("none", {}), path |-> <<>>, resolved |-> NoField,
     documentation |-> <<>>, kind |-> "query", sent |-> [query |-> <<>>, variables |-> << >>],
     sentAgain |-> [query |-> <<>>, variables |-> << >>]]

Init ==
    /\ probe = IdleProbe
    /\ authToken = [set |-> FALSE, text |-> ""]
    /\ transports = [s \in SessionIds |-> NoTransport]
    /\ sessions = <<>>
    /\ exchange = NoExchange
    /\ argv \in Argvs
    /\ file \in Files
    /\ upstream \in SchemaIds
    /\ pc = "parseArgs"
    /\ schema = NoSchema
    /\ exposedConfig = NullDoc
    /\ tools = <<>>
    /\ serving = FALSE
    /\ fetchCount = 0
    /\ loadCount = 0
    /\ setupCount = 0
    /\ writes = 0
    /\ exitCode = 0
    /\ stderr = {}
    /\ fatal = "none"
    /\ calls = <<>>
    /\ runNo = 1
    /\ prevFile = file
    /\ prevUpstream = upstream

\* The process ends with `code`, having printed `msg`, because of `cause`.
Exit(code, msg, cause) ==
    /\ pc' = "exited"
    /\ exitCode' = code
    /\ stderr' = stderr \cup msg
    /\ fatal' = cause
    /\ serving' = FALSE

\* run() rejects: .catch(console.error) prints the error and nothing else.
RunRejected(msg, cause) == Exit(exitCodeOnRejection, {msg}, cause)

\* parseArgs, then the constructor, then the first stage of run().
ParseArgs ==
    /\ pc = "parseArgs"
    /\ IF argv.help
       THEN Exit(0, {}, "none")
       ELSE IF argv.transport \notin {"stdio", "http"}
       THEN Exit(exitCodeOnBadArgs, {"Error: Transport must be stdio or http"}, "badTransport")
       ELSE IF ~argv.graphqlUrl
       THEN Exit(exitCodeOnBadArgs, {"Error: GraphQL URL is required"}, "noUrl")
       ELSE /\ pc' = RunOrder[1]
            /\ UNCHANGED <<exitCode, stderr, fatal, serving>>
    /\ UNCHANGED <<probe, authToken, transports, sessions, exchange,
                   argv, file, upstream, schema, exposedConfig, tools, fetchCount,
                   loadCount, setupCount, writes, calls, runNo, prevFile, prevUpstream>>

\* setupResources: its one effect on the rest is the schema fetch.
SetupResources ==
    /\ pc = "setupResources"
    /\ \E out \in (IF needsFetch(schema) THEN FetchOutcomes ELSE {"cached"}) :
          /\ fetchCount' = IF out = "cached" THEN fetchCount ELSE fetchCount + 1
          /\ IF out \in {"ok", "cached"}
             THEN /\ schema' = IF out = "ok" THEN upstream ELSE schema
                  /\ pc' = StageAfter("setupResources")
                  /\ UNCHANGED <<exitCode, stderr, fatal, serving>>
             ELSE /\ RunRejected("Failed to fetch GraphQL schema", out)
                  /\ UNCHANGED schema
    /\ UNCHANGED <<probe, authToken, transports, sessions, exchange,
                   argv, file, upstream, exposedConfig, tools, loadCount, setupCount,
                   writes, calls, runNo, prevFile, prevUpstream>>

\* setupTools up to its first await: loadExposedConfig.
LoadExposedConfig ==
    /\ pc = "setupTools"
    /\ loadCount' = loadCount + 1
    /\ CASE file.state = "absent" ->
              /\ RunRejected("exposed.yaml not found - it is required", "ENOENT")
              /\ UNCHANGED exposedConfig
         [] file.state = "garbled" ->
              /\ RunRejected("Error loading exposed.yaml", "yaml")
              /\ UNCHANGED exposedConfig
         [] OTHER ->
              /\ exposedConfig' = file.doc
              /\ pc' = "setupTools.loaded"
              /\ UNCHANGED <<exitCode, stderr, fatal, serving>>
    /\ UNCHANGED <<probe, authToken, transports, sessions, exchange,
                   argv, file, upstream, schema, tools, fetchCount, setupCount,
                   writes, calls, runNo, prevFile, prevUpstream>>

\* The rest of setupTools: the guarded fetch and the two registration loops.
RegisterTools ==
    /\ pc = "setupTools.loaded"
    /\ \E out \in (IF needsFetch(schema) THEN FetchOutcomes ELSE {"cached"}) :
          /\ fetchCount' = IF out = "cached" THEN fetchCount ELSE fetchCount + 1
          /\ IF out \in {"ok", "cached"}
             THEN LET s == IF out = "ok" THEN upstream ELSE schema
                      r == registerConfigured(exposedConfig, s, argv.queryPrefix,
                                              argv.mutationPrefix)
                  IN /\ schema' = s
                     /\ tools' = r.tools
                     /\ setupCount' = setupCount + 1
                     /\ writes' = IF r.wrote THEN writes + 1 ELSE writes
                     /\ file' = IF r.wrote THEN ParsedFile(exposedConfig) ELSE file
                     /\ IF r.threw
                        THEN RunRejected("Error in setupTools", "config")
                        ELSE /\ pc' = StageAfter("setupTools")
                             /\ UNCHANGED <<exitCode, stderr, fatal, serving>>
             ELSE /\ RunRejected("Failed to fetch GraphQL schema", out)
                  /\ UNCHANGED <<schema, tools, setupCount, writes, file>>
    /\ UNCHANGED <<probe, authToken, transports, sessions, exchange,
                   argv, upstream, exposedConfig, loadCount, calls, runNo,
                   prevFile, prevUpstream>>

\* runStdioServer: server.connect(transport); runHttpServer: app.listen.
Transport ==
    /\ pc = "transport"
    /\ serving' = TRUE
    /\ pc' = StageAfter("transport")
    /\ UNCHANGED <<probe, authToken, transports, sessions, exchange,
                   argv, file, upstream, schema, exposedConfig, tools, fetchCount,
                   loadCount, setupCount, writes, exitCode, stderr, fatal, calls,
                   runNo, prevFile, prevUpstream>>

\* An executor that sends its request once more after a rejection.
settledWithRetry(call, response) ==
    IF ~response.ok /\ call.requests < 2
    THEN [call EXCEPT !.requests = @ + 1]
    ELSE [call EXCEPT !.state = IF response.ok THEN "ok" ELSE "failed",
                      !.response = response,
                      !.result = executorResult(call.kind, response)]

\* The executor past its one await: the result is returned, or the rejection
\* is rethrown; this.client.request is not called again.
settled(call, response) ==
    [call EXCEPT !.state = IF response.ok THEN "ok" ELSE "failed",
                 !.response = response,
                 !.result = executorResult(call.kind, response)]

\* A client invokes a registered tool: the executor sends one upstream request.
CallTool ==
    /\ serving
    /\ Len(calls) < MaxCalls
    /\ \E i \in 1..Len(tools), raw \in CallArgValues :
          LET args == [n \in {tools[i].field.args[j].name :
                                 j \in 1..Len(tools[i].field.args)} |-> raw]
              request == executorRequest(tools[i].kind, tools[i].fieldPath,
                                         tools[i].field, args)
          IN calls' = Append(calls,
                 [tool |-> tools[i].name, kind |-> tools[i].kind, state |-> "pending",
                  query |-> request.query,
                  variables |-> request.variables,
                  requests |-> 1, response |-> NoResponse, result |-> NoResult])
    /\ UNCHANGED <<probe, authToken, transports, sessions, exchange,
                   argv, file, upstream, pc, schema, exposedConfig, tools, serving,
                   fetchCount, loadCount, setupCount, writes, exitCode, stderr,
                   fatal, runNo, prevFile, prevUpstream>>

\* The upstream request of a pending invocation resolves or rejects.
SettleCall ==
    /\ pc # "exited"
    /\ \E i \in 1..Len(calls) : \E response \in UpstreamResponses(calls[i]) :
          /\ calls[i].state = "pending"
          /\ calls' = [calls EXCEPT ![i] = settled(calls[i], response)]
    /\ UNCHANGED <<probe, authToken, transports, sessions, exchange,
                   argv, file, upstream, pc, schema, exposedConfig, tools, serving,
                   fetchCount, loadCount, setupCount, writes, exitCode, stderr,
                   fatal, runNo, prevFile, prevUpstream>>

\* The process is started again, same command line, same exposed.yaml; the
\* upstream schema may have evolved meanwhile.
Restart ==
    /\ pc \in {"exited", "running"}
    /\ runNo < MaxRuns
    /\ runNo' = runNo + 1
    /\ prevFile' = file
    /\ prevUpstream' = upstream
    /\ upstream' \in SchemaIds
    /\ pc' = "parseArgs"
    /\ schema' = NoSchema
    /\ exposedConfig' = NullDoc
    /\ tools' = <<>>
    /\ serving' = FALSE
    /\ fetchCount' = 0
    /\ loadCount' = 0
    /\ setupCount' = 0
    /\ writes' = 0
    /\ exitCode' = 0
    /\ stderr' = {}
    /\ fatal' = "none"
    /\ calls' = <<>>
    /\ UNCHANGED <<probe, authToken, transports, sessions, exchange,
                   argv, file>>

Next ==
    \/ ParseArgs
    \/ SetupResources
    \/ LoadExposedConfig
    \/ RegisterTools
    \/ Transport
    \/ CallTool
    \/ SettleCall
    \/ Restart

Spec == Init /\ [][Next]_vars

\* ------------------------------------------- the type algebra on its own

TypeNames ==
    ScalarTypeNames \cup EnumTypeNames \cup ObjectTypeNames \cup InputObjectTypeNames

\* The wrapper chains GraphQL allows: NonNull never wraps NonNull.
WrapperChains ==
    { w \in UNION {[1..n -> {"NON_NULL", "LIST"}] : n \in 0..MaxWrappers} :
        \A i \in 1..(Len(w) - 1) : ~(w[i] = "NON_NULL" /\ w[i + 1] = "NON_NULL") }

\* null / undefined where a type is expected

TypeRefs ==
    {[wrappers |-> w, name |-> n] : w \in WrapperChains, n \in TypeNames}
        \cup {Named("null")}

processVars ==
    <<argv, file, upstream, pc, schema, exposedConfig, tools, serving, fetchCount,
      loadCount, setupCount, writes, exitCode, stderr, fatal, calls, runNo,
      prevFile, prevUpstream>>

\* Field paths as a configuration may write them, over the query root of v1.
Paths ==
    {pGetUser, pApiGet, pApiGetFlat, pApiWidgetsGet, pOldOp, pLength, pCreateUser,
     <<"getUser", ".", "friend">>,
     <<"getUser", ".", "friend", ".", "lastPost", ".", "author">>,
     <<"getUser", ".", "avatar">>,
     <<"getUser", ".", "posts", ".", "title">>,
     <<"listPosts", ".", "title">>,
     <<"length", ".", "x">>,
     <<"getUser", ".", "name", ".", "x">>,
     <<"api", ".", "nope">>,
     <<"api", ".", "nope", ".", "get">>,
     <<"api", ".">>,
     <<".", "api">>,
     <<"api", ".", ".", "get">>}

\* A TypeRef and a client value, or a field path, are at hand; no process runs.
TypeInit ==
    /\ probe \in {[IdleProbe EXCEPT !.type = t, !.value = v] :
                     t \in TypeRefs, v \in ArgValues}
                 \cup {[IdleProbe EXCEPT !.path = p, !.value = v] :
                         p \in Paths, v \in ArgValues}
    /\ authToken = [set |-> FALSE, text |-> ""]
    /\ transports = [s \in SessionIds |-> NoTransport]
    /\ sessions = <<>>
    /\ exchange = NoExchange
    /\ argv = [help |-> FALSE, transport |-> "stdio", graphqlUrl |-> TRUE,
               queryPrefix |-> <<>>, mutationPrefix |-> <<>>]
    /\ file = AbsentFile
    /\ upstream = "v1"
    /\ pc = "algebra"
    /\ schema = "v1"
    /\ exposedConfig = NullDoc
    /\ tools = <<>>
    /\ serving = FALSE
    /\ fetchCount = 0
    /\ loadCount = 0
    /\ setupCount = 0
    /\ writes = 0
    /\ exitCode = 0
    /\ stderr = {}
    /\ fatal = "none"
    /\ calls = <<>>
    /\ runNo = 1
    /\ prevFile = file
    /\ prevUpstream = upstream

ApplyGetBaseType ==
    /\ probe.applied = {}
    /\ probe' = [probe EXCEPT !.applied = @ \cup {"getBaseType"},
                              !.base = getBaseType(probe.type)]
    /\ UNCHANGED <<processVars, authToken, transports, sessions, exchange>>

ApplyGetTypeDescription ==
    /\ probe.applied = {}
    /\ probe' = [probe EXCEPT !.applied = @ \cup {"getTypeDescription"},
                              !.rendered = getTypeDescription(probe.type)]
    /\ UNCHANGED <<processVars, authToken, transports, sessions, exchange>>

\* generateSelectionSet(type), depth defaulting to 0.
ApplyGenerateSelectionSet ==
    /\ probe.applied = {}
    /\ probe' = [probe EXCEPT !.applied = @ \cup {"generateSelectionSet"},
                              !.selection = generateSelectionSet(probe.type, 0)]
    /\ UNCHANGED <<processVars, authToken, transports, sessions, exchange>>

ApplyParseArgumentValue ==
    /\ probe.applied = {}
    /\ probe' = [probe EXCEPT !.applied = @ \cup {"parseArgumentValue"},
                              !.parsed = parseArgumentValue(probe.value, probe.type)]
    /\ UNCHANGED <<processVars, authToken, transports, sessions, exchange>>

ApplyIsListTypeCheck ==
    /\ probe.applied = {}
    /\ probe' = [probe EXCEPT !.applied = @ \cup {"isListTypeCheck"},
                              !.listLike = isListTypeCheck(probe.type)]
    /\ UNCHANGED <<processVars, authToken, transports, sessions, exchange>>

\* generateInputSchema for a field whose one argument has the type at hand.
ApplyGenerateInputSchema ==
    /\ probe.applied = {}
    /\ probe' = [probe EXCEPT !.applied = @ \cup {"generateInputSchema"},
                              !.inputSchema =
                                  generateInputSchema(<<Arg(<<"arg">>, probe.type)>>)]
    /\ UNCHANGED <<processVars, authToken, transports, sessions, exchange>>

\* getNestedField(queryFields, fieldPath), as setupTools calls it.
ApplyGetNestedField ==
    /\ probe.applied = {}
    /\ probe' = [probe EXCEPT !.applied = @ \cup {"getNestedField"},
                              !.resolved = getNestedField(queryFields(schema), probe.path)]
    /\ UNCHANGED <<processVars, authToken, transports, sessions, exchange>>

\* generateArgumentDocumentation for a field whose one argument has the type
\* at hand.
ApplyGenerateArgumentDocumentation ==
    /\ probe.applied = {}
    /\ probe' = [probe EXCEPT !.applied = @ \cup {"generateArgumentDocumentation"},
                              !.documentation =
                                  generateArgumentDocumentation(<<Arg(<<"arg">>, probe.type)>>)]
    /\ UNCHANGED <<processVars, authToken, transports, sessions, exchange>>

\* The executor of the tool for the path at hand is invoked twice: with the
\* value at hand, and with any value, for every argument the field declares.
ApplyExecutor ==
    /\ probe.applied = {}
    /\ \E kind \in {"query", "mutation"}, other \in ArgValues :
          LET fields == IF kind = "query" THEN queryFields(schema)
                        ELSE mutationFields(schema)
              field == getNestedField(fields, probe.path)
              names == {field.args[j].name : j \in 1..Len(field.args)}
          IN /\ field # NoField
             /\ probe' = [probe EXCEPT
                    !.applied = @ \cup {"executor"},
                    !.kind = kind,
                    !.resolved = field,
                    !.sent = executorRequest(kind, probe.path, field,
                                             [n \in names |-> probe.value]),
                    !.sentAgain = executorRequest(kind, probe.path, field,
                                                  [n \in names |-> other])]
    /\ UNCHANGED <<processVars, authToken, transports, sessions, exchange>>

TypeNext ==
    \/ ApplyExecutor
    \/ ApplyGenerateArgumentDocumentation
    \/ ApplyGetNestedField
    \/ ApplyIsListTypeCheck
    \/ ApplyGenerateInputSchema
    \/ ApplyGetBaseType
    \/ ApplyGetTypeDescription
    \/ ApplyGenerateSelectionSet
    \/ ApplyParseArgumentValue

TypeSpec == TypeInit /\ [][TypeNext]_vars

\* ------------------------------------------------- the HTTP server on its own

\* runHttpServer has been entered: the map is empty, AUTH_TOKEN was read.
HttpInit ==
    /\ probe = IdleProbe
    /\ authToken \in AuthTokens
    /\ transports = [s \in SessionIds |-> NoTransport]
    /\ sessions = <<>>
    /\ exchange = NoExchange
    /\ argv = [help |-> FALSE, transport |-> "http", graphqlUrl |-> TRUE,
               queryPrefix |-> <<>>, mutationPrefix |-> <<>>]
    /\ file = AbsentFile
    /\ upstream = "v1"
    /\ pc = "running"
    /\ schema = "v1"
    /\ exposedConfig = NullDoc
    /\ tools = <<>>
    /\ serving = TRUE
    /\ fetchCount = 0
    /\ loadCount = 0
    /\ setupCount = 0
    /\ writes = 0
    /\ exitCode = 0
    /\ stderr = {}
    /\ fatal = "none"
    /\ calls = <<>>
    /\ runNo = 1
    /\ prevFile = file
    /\ prevUpstream = upstream

\* The request got past express.json() and the authentication middleware.
reachesRoutes(req) ==
    /\ ~jsonRejects(req)
    /\ authInstalled(authToken) => ~authRejects(authToken, req)

\* express.json() cannot parse the body: 400, nothing after it runs.
JsonParserAnswers400 ==
    /\ \E req \in Requests :
          /\ jsonRejects(req)
          /\ exchange' = Exchange(req, 400, "none", NoTransport)
    /\ UNCHANGED <<authToken, transports, sessions, processVars, probe>>

\* The authentication middleware answers 401 and does not call next().
AuthAnswers401 ==
    /\ \E req \in Requests :
          /\ ~jsonRejects(req)
          /\ authInstalled(authToken)
          /\ authRejects(authToken, req)
          /\ exchange' = Exchange(req, 401, "none", NoTransport)
    /\ UNCHANGED <<authToken, transports, sessions, processVars, probe>>

\* app.get('/mcp') and app.delete('/mcp'): 405.
MethodNotAllowed ==
    /\ \E req \in Requests :
          /\ reachesRoutes(req)
          /\ req.path = "/mcp"
          /\ req.method \in {"GET", "DELETE"}
          /\ exchange' = Exchange(req, 405, IF req.method = "GET" THEN "get" ELSE "delete",
                                  NoTransport)
    /\ UNCHANGED <<authToken, transports, sessions, processVars, probe>>

\* No route matches: express answers 404.
NoRoute ==
    /\ \E req \in Requests :
          /\ reachesRoutes(req)
          /\ req.path # "/mcp"
          /\ exchange' = Exchange(req, 404, "none", NoTransport)
    /\ UNCHANGED <<authToken, transports, sessions, processVars, probe>>

\* app.post('/mcp') with a session ID the map holds: the stored transport
\* handles the request.
PostMcpReuse ==
    /\ \E req \in Requests :
          /\ reachesRoutes(req)
          /\ req.path = "/mcp" /\ req.method = "POST"
          /\ req.sessionId # NoSession
          /\ transports[req.sessionId] # NoTransport
          /\ exchange' = Exchange(req, 200, "post", transports[req.sessionId])
    /\ UNCHANGED <<authToken, transports, sessions, processVars, probe>>

\* app.post('/mcp') otherwise, up to `await this.server.connect(transport)`: a
\* transport is created; nothing is stored yet.
PostMcpCreate ==
    /\ Len(sessions) < MaxTransports
    /\ \E req \in Requests :
          /\ reachesRoutes(req)
          /\ req.path = "/mcp" /\ req.method = "POST"
          /\ IF req.sessionId = NoSession THEN TRUE
             ELSE transports[req.sessionId] = NoTransport
          /\ sessions' = Append(sessions, [sessionId |-> req.sessionId,
                                           state |-> "connecting"])
          /\ exchange' = Exchange(req, 0, "post", Len(sessions) + 1)
    /\ UNCHANGED <<authToken, transports, processVars, probe>>

\* The handler resumes after connect: the transport is stored under the
\* session ID if there is one, its onclose is set, and it handles the request.
Connected ==
    /\ \E t \in 1..Len(sessions) :
          /\ sessions[t].state = "connecting"
          /\ sessions' = [sessions EXCEPT ![t].state = "open"]
          /\ transports' = IF sessions[t].sessionId # NoSession
                           THEN [transports EXCEPT ![sessions[t].sessionId] = t]
                           ELSE transports
          /\ exchange' = IF exchange.transport = t /\ exchange.status = 0
                         THEN [exchange EXCEPT !.status = 200]
                         ELSE exchange
    /\ UNCHANGED <<authToken, processVars, probe>>

\* transport.onclose: `if (sessionId && transports[sessionId]) delete transports[sessionId]`
TransportClose ==
    /\ \E t \in 1..Len(sessions) :
          /\ sessions[t].state = "open"
          /\ sessions' = [sessions EXCEPT ![t].state = "closed"]
          /\ transports' = IF sessions[t].sessionId # NoSession
                              /\ transports[sessions[t].sessionId] # NoTransport
                           THEN [transports EXCEPT ![sessions[t].sessionId] = NoTransport]
                           ELSE transports
    /\ UNCHANGED <<authToken, exchange, processVars, probe>>

HttpNext ==
    \/ JsonParserAnswers400
    \/ AuthAnswers401
    \/ MethodNotAllowed
    \/ NoRoute
    \/ PostMcpReuse
    \/ PostMcpCreate
    \/ Connected
    \/ TransportClose

HttpSpec == HttpInit /\ [][HttpNext]_vars

\* ----------------------------------------------------------------- claims

Categories == {"query", "mutation"}

catOf(doc, cat) == IF cat = "query" THEN doc.queries ELSE doc.mutations

\* The fields of a category's root type (none when the schema has no such root).
rootFields(s, cat) ==
    IF cat = "query" THEN queryFields(s)
    ELSE IF hasMutationType(s) THEN mutationFields(s)
    ELSE [f \in {} |-> NoField]

\* The operations discovered in the live schema: the root type's fields.
discovered(s, cat) == DOMAIN rootFields(s, cat)

\* A key of the configuration names an operation of the schema.
resolves(s, cat, k) == getNestedField(rootFields(s, cat), k) # NoField

hasTool(cat, op) == \E i \in 1..Len(tools) : tools[i].kind = cat /\ tools[i].fieldPath = op

\* The document is written in the mapping format exposed.yaml is documented in.
mappingFormat(doc) ==
    /\ doc.kind = "object" /\ doc.hasExposed
    /\ \A cat \in Categories : catOf(doc, cat).form \in {"map", "missing"}

\* The persisted configuration and the schema disagree: an operation without
\* an entry, or an entry without an operation.
outOfSync(doc, s) ==
    \E cat \in Categories :
        \/ \E op \in discovered(s, cat) : op \notin Keys(catOf(doc, cat))
        \/ \E k \in Keys(catOf(doc, cat)) : ~resolves(s, cat, k)

\* setupTools has returned normally.
toolsAreSetUp == pc \in {"transport", "running"} /\ setupCount >= 1

\* C1: after startup, with exposed.yaml in its documented mapping format, an
\* operation of the schema has a registered tool exactly when its persisted
\* value is the boolean true.
C1_ToolIffExposedTrue ==
    (pc = "running" /\ mappingFormat(file.doc)) =>
        \A cat \in Categories : \A op \in discovered(schema, cat) :
            hasTool(cat, op) <=> (ValueOf(catOf(file.doc, cat), op) = "true")

\* C2: once setupTools has returned, every operation discovered in the live
\* schema has an entry in the persisted configuration, and an entry that was
\* not there when the process started has the value true.
C2_DiscoveredOperationsInserted ==
    toolsAreSetUp =>
        \A cat \in Categories : \A op \in discovered(schema, cat) :
            /\ op \in Keys(catOf(file.doc, cat))
            /\ op \notin Keys(catOf(prevFile.doc, cat))
                   => ValueOf(catOf(file.doc, cat), op) = "true"

\* C3: once setupTools has returned, no key of the persisted configuration
\* names an operation that the live schema does not have.
C3_StaleEntriesPruned ==
    toolsAreSetUp =>
        \A cat \in Categories : \A k \in Keys(catOf(file.doc, cat)) :
            resolves(schema, cat, k)

\* C4: a second start against an unchanged schema and the configuration the
\* first one left writes nothing and leaves exposed.yaml as it found it.
C4_SecondRunWritesNothing ==
    (runNo >= 2 /\ upstream = prevUpstream) => (writes = 0 /\ file = prevFile)

\* C4's case: a second lifetime, same schema, has come up and registered tools.
C4_SecondRunCameUp ==
    /\ runNo >= 2 /\ upstream = prevUpstream
    /\ pc = "running" /\ setupCount = 1 /\ tools # <<>>

\* C5: with exposed.yaml absent when the process starts, loading does not
\* end startup: the process goes on and the file exists afterwards.
C5_AbsentConfigIsSynthesized ==
    (prevFile.state = "absent" /\ loadCount >= 1) =>
        (pc # "exited" /\ file.state = "parsed")

\* C6: when the configuration the process started with disagrees with the
\* schema, it has been written back, in sync, by the time setupTools returns.
C6_DirtyConfigWrittenBack ==
    (toolsAreSetUp /\ outOfSync(prevFile.doc, schema)) =>
        (writes >= 1 /\ ~outOfSync(file.doc, schema))

\* The category value with the scalar under key k replaced by v.
withValue(c, k, v) ==
    [c EXCEPT !.entries =
        [i \in 1..Len(c.entries) |->
            IF c.entries[i].key = k THEN Entry(k, v) ELSE c.entries[i]]]

withEntry(doc, cat, k, v) ==
    IF cat = "query" THEN [doc EXCEPT !.queries = withValue(doc.queries, k, v)]
    ELSE [doc EXCEPT !.mutations = withValue(doc.mutations, k, v)]

\* The tools the same process registers from the document doc.
toolSetOf(doc) ==
    LET r == registerConfigured(doc, schema, argv.queryPrefix, argv.mutationPrefix).tools
    IN {r[i] : i \in 1..Len(r)}

\* C7: with one entry set to false, every other operation of the schema whose
\* entry is true is registered, under the name and with the definition it has
\* when the disabled entry is true instead.
C7_DisablingLeavesSiblingsAlone ==
    (pc = "running" /\ mappingFormat(exposedConfig)) =>
        \A cat \in Categories : \A k \in Keys(catOf(exposedConfig, cat)) :
            ValueOf(catOf(exposedConfig, cat), k) = "false" =>
                \A cat2 \in Categories : \A k2 \in Keys(catOf(exposedConfig, cat2)) :
                    ( /\ <<cat2, k2>> # <<cat, k>>
                      /\ ValueOf(catOf(exposedConfig, cat2), k2) = "true"
                      /\ resolves(schema, cat2, k2) )
                    => \E i \in 1..Len(tools) :
                          /\ tools[i].kind = cat2 /\ tools[i].fieldPath = k2
                          /\ tools[i] \in toolSetOf(withEntry(exposedConfig, cat, k, "true"))

\* Introspection, configuration load and tool registration each ran once.
startupComplete ==
    /\ fetchCount = 1 /\ loadCount = 1 /\ setupCount = 1
    /\ schema # NoSchema

\* C8: introspection, configuration load and tool registration run at most
\* once each and in that order, and all three have completed whenever a
\* transport is connected or a tool invocation has been accepted.
C8_StartupBeforeServing ==
    /\ fetchCount <= 1 /\ loadCount <= 1 /\ setupCount <= 1
    /\ loadCount = 1 => fetchCount = 1
    /\ setupCount = 1 => loadCount = 1
    /\ (serving \/ calls # <<>>) => startupComplete

\* C8's case: a transport is connected and an invocation has been answered.
C8_InvocationServed ==
    serving /\ \E i \in 1..Len(calls) : calls[i].state = "ok"

\* C9: a process that ended on one of the fatal startup conditions ended with
\* a non-zero status and a diagnostic, having served nothing.
C9_FatalStartupExitsNonZero ==
    (pc = "exited" /\ fatal \in {"noUrl", "noEnvelope", "requestError", "yaml", "config"}) =>
        (exitCode # 0 /\ stderr # {} /\ ~serving /\ calls = <<>>)

\* C10: a process never issues more than one introspection request; it has
\* issued exactly one once resource setup is over, and still exactly one
\* after any number of tool invocations.
C10_OneIntrospectionRequest ==
    /\ fetchCount <= 1
    /\ pc \in {"setupTools", "setupTools.loaded", "transport", "running"} => fetchCount = 1
    /\ calls # <<>> => fetchCount = 1

\* C10's case: the process is up and invocations have come and gone.
C10_InvocationsAfterOneFetch ==
    /\ pc = "running" /\ fetchCount = 1
    /\ Len(calls) = MaxCalls
    /\ \E i \in 1..Len(calls) : calls[i].state = "failed"


\* The loaded configuration lists its operations, so that both loops of
\* setupTools ran over them.
listsWereProcessed ==
    /\ toolsAreSetUp
    /\ exposedConfig.kind = "object" /\ exposedConfig.hasExposed
    /\ \A cat \in Categories : catOf(exposedConfig, cat).form \in {"list", "missing"}

\* Entry i of the category does not resolve in the schema.
failsToResolve(cat, i) == ~resolves(schema, cat, catOf(exposedConfig, cat).items[i])

\* A registered query tool holds the name.
queryHolds(name) ==
    \E t \in 1..Len(tools) : tools[t].kind = "query" /\ tools[t].name = name

\* Entry i of the category resolves and its registration throws: an earlier
\* entry of the category that resolves derives the same tool name, or the
\* entry is a mutation whose name and whose renamed name are both held by
\* query tools.
failsToRegister(cat, i) ==
    LET items == catOf(exposedConfig, cat).items
    IN /\ resolves(schema, cat, items[i])
       /\ \/ \E j \in 1..(i - 1) :
                /\ resolves(schema, cat, items[j])
                /\ ReplaceDots(items[j]) = ReplaceDots(items[i])
          \/ /\ cat = "mutation"
             /\ queryHolds(argv.mutationPrefix \o ReplaceDots(items[i]))
             /\ queryHolds(argv.mutationPrefix \o ReplaceDots(items[i])
                               \o <<"_", "mutation">>)

\* The configuration without entry i of the category.
withoutEntry(doc, cat, i) ==
    LET items == catOf(doc, cat).items
        rest == SubSeq(items, 1, i - 1) \o SubSeq(items, i + 1, Len(items))
    IN IF cat = "query" THEN [doc EXCEPT !.queries.items = rest]
       ELSE [doc EXCEPT !.mutations.items = rest]

\* C11: an entry that does not resolve, or whose registration throws, is
\* skipped and nothing else: the tools registered are those the configuration
\* without that entry registers, every entry that resolves and registers has
\* its tool, and startup goes on to the transport.
C11_FailingEntrySkippedAlone ==
    listsWereProcessed =>
        /\ fatal = "none" /\ pc # "exited"
        /\ \A cat \in Categories :
              \A i \in 1..Len(catOf(exposedConfig, cat).items) :
                 /\ (failsToResolve(cat, i) \/ failsToRegister(cat, i)) =>
                        tools = registerConfigured(withoutEntry(exposedConfig, cat, i),
                                    schema, argv.queryPrefix, argv.mutationPrefix).tools
                 /\ (resolves(schema, cat, catOf(exposedConfig, cat).items[i])
                        /\ ~failsToRegister(cat, i)) =>
                        hasTool(cat, catOf(exposedConfig, cat).items[i])

\* An unresolved entry and an entry whose registration threw were passed
\* over in both categories, and the entries after them are served.
C11_LaterEntriesRegistered ==
    /\ listsWereProcessed /\ pc = "running" /\ serving
    /\ exposedConfig.queries.items = <<pOldOp, pApiGet, pApiGetFlat, pGetUser>>
    /\ hasTool("query", pApiGet) /\ ~hasTool("query", pApiGetFlat)
    /\ hasTool("query", pGetUser)
    /\ hasTool("mutation", pGetUser) /\ hasTool("mutation", pCreateUser)

\* The text of a result holds the message.
textHolds(result, message) ==
    \E k \in 1..Len(result.text) :
        /\ k + Len(message) - 1 <= Len(result.text)
        /\ SubSeq(result.text, k, k + Len(message) - 1) = message

\* C12: an invocation whose upstream request failed has an error result that
\* holds the upstream error's message; every settled invocation has the
\* outcome of its own upstream response, a pending one has none yet, whatever
\* happened to the others; and the process is still running and serving.
C12_FailureStaysWithItsCall ==
    \A i \in 1..Len(calls) :
        /\ pc = "running" /\ serving /\ fatal = "none"
        /\ calls[i].state = "failed" =>
              /\ ~calls[i].response.ok
              /\ calls[i].result.isError
              /\ textHolds(calls[i].result, calls[i].response.body)
        /\ calls[i].state = "ok" =>
              /\ calls[i].response.ok
              /\ ~calls[i].result.isError
              /\ textHolds(calls[i].result, calls[i].response.body)
        /\ calls[i].state = "pending" => calls[i].result = NoResult

\* Two invocations of different tools were in flight: the first failed with
\* the message of its own upstream error, the second succeeded with its data.
C12_OneFailedOtherCompleted ==
    /\ Len(calls) >= 2
    /\ calls[1].tool # calls[2].tool
    /\ calls[1].state = "failed"
    /\ calls[1].result.text =
          <<"GraphQL", calls[1].kind, "failed", ":", "cannot", "serve">> \o calls[1].tool
    /\ calls[2].state = "ok"
    /\ calls[2].result.text = <<"JSON", "data", "of">> \o calls[2].tool

\* How many blocks enclose token k of a selection.
nestingAt(sel, k) ==
    Cardinality({j \in 1..(k - 1) : sel[j] = "{"})
        - Cardinality({j \in 1..(k - 1) : sel[j] = "}"})

\* A selection that can stand between braces as it is: not empty, its braces
\* paired, every block opened by a field name and holding a selection.
syntacticallyComplete(sel) ==
    /\ sel # <<>>
    /\ \A k \in 1..(Len(sel) + 1) : nestingAt(sel, k) >= 0
    /\ nestingAt(sel, Len(sel) + 1) = 0
    /\ sel[1] \notin {"{", "}", SelectionSep}
    /\ sel[Len(sel)] \notin {"{", SelectionSep}
    /\ \A k \in 1..Len(sel) :
          /\ sel[k] = "{" =>
                /\ sel[k - 1] \notin {"{", "}", SelectionSep}
                /\ sel[k + 1] \notin {"{", "}", SelectionSep}
          /\ sel[k] = SelectionSep =>
                /\ sel[k - 1] \notin {"{", SelectionSep}
                /\ sel[k + 1] \notin {"{", "}", SelectionSep}

synthesized == "generateSelectionSet" \in probe.applied

\* C13: generateSelectionSet(type, 0) returns (on self-referential and
\* mutually cyclic Object types too); for a type over an Object type the
\* result is not null and is a complete selection; no block is nested deeper
\* than under the fields selected at depth 3, and what stands there is only
\* __typename.
C13_SelectionBoundedAndComplete ==
    synthesized =>
        /\ isObjectType(getBaseType(probe.type)) =>
              /\ probe.selection # NullSelection
              /\ syntacticallyComplete(probe.selection)
        /\ \A k \in 1..Len(probe.selection) :
              /\ nestingAt(probe.selection, k) <= 4
              /\ (nestingAt(probe.selection, k) = 4
                    /\ probe.selection[k] \notin {"{", "}"}) =>
                    probe.selection[k] = Typename

\* The selection of Post went through author into User, on through friend
\* and lastPost, and ended at the cap with __typename.
C13_CycleCutAtCap ==
    /\ synthesized
    /\ probe.type = List(NonNull(Named("Post")))
    /\ \E k \in 1..Len(probe.selection) :
          /\ nestingAt(probe.selection, k) = 4
          /\ probe.selection[k] = Typename
          /\ probe.selection[k - 2] = "lastPost"

\* C14: generateSelectionSet returns null for every type whose named type,
\* under all of its NonNull and List wrappers however nested, is a Scalar or
\* an Enum.
C14_NullForScalarAndEnum ==
    (synthesized
        /\ (isScalarType(getBaseType(probe.type)) \/ isEnumType(getBaseType(probe.type))))
    => probe.selection = NullSelection

\* The selection names the field at its top level.
selectedAtTop(sel, field) ==
    \E k \in 1..Len(sel) :
        /\ nestingAt(sel, k) = 0
        /\ k + Len(field.name) - 1 <= Len(sel)
        /\ SubSeq(sel, k, k + Len(field.name) - 1) = field.name
        /\ (k = 1 \/ sel[k - 1] = SelectionSep)
        /\ (k + Len(field.name) > Len(sel)
              \/ sel[k + Len(field.name)] \in {SelectionSep, "{"})

\* The fields of the Object type a selection was synthesized for, as far as
\* their own type can be selected at all (a leaf or an Object).
candidateFields ==
    IF synthesized /\ isObjectType(selectionBaseType(probe.type))
    THEN { f \in {getFields(selectionBaseType(probe.type))[n] :
                     n \in DOMAIN getFields(selectionBaseType(probe.type))} :
             \/ isScalarType(selectionBaseType(f.type))
             \/ isEnumType(selectionBaseType(f.type))
             \/ isObjectType(selectionBaseType(f.type)) }
    ELSE {}

requiresNoArgument(field) ==
    \A i \in 1..Len(field.args) : ~isNonNullType(field.args[i].type)

\* C15 as stated: a field is selected exactly when none of its arguments is
\* required, so a field with only optional arguments is selected.
C15_SelectedIffNoRequiredArgument ==
    \A f \in candidateFields :
        selectedAtTop(probe.selection, f) <=> requiresNoArgument(f)

\* C15: a field is selected exactly when it declares no argument at all; a
\* field with an argument, optional or required, is never selected.
C15_SelectedIffNoArgument ==
    \A f \in candidateFields :
        selectedAtTop(probe.selection, f) <=> Len(f.args) = 0

\* The selection of User holds friend and leaves out posts(first: Int) and
\* avatar(size: Int!).
C15_OptionalArgumentLeftOut ==
    /\ synthesized
    /\ probe.type = NonNull(Named("User"))
    /\ selectedAtTop(probe.selection, UserFields[nFriend])
    /\ ~selectedAtTop(probe.selection, UserFields[nPosts])
    /\ ~selectedAtTop(probe.selection, UserFields[nAvatar])

\* The registered tool an invocation went to.
toolOf(call) == CHOOSE t \in {tools[j] : j \in 1..Len(tools)} : t.name = call.tool

RECURSIVE openParents(_, _)
\* The parents of a path, first to last, each opening its block.
openParents(pathParts, i) ==
    IF i >= Len(pathParts) THEN <<>>
    ELSE pathParts[i] \o <<"{">> \o openParents(pathParts, i + 1)

occurrences(text, token) == Cardinality({k \in 1..Len(text) : text[k] = token})

RECURSIVE indexOf(_, _, _)
\* The first position from k on where the text holds the token (0: nowhere).
indexOf(text, token, k) ==
    IF k > Len(text) THEN 0
    ELSE IF text[k] = token THEN k
    ELSE indexOf(text, token, k + 1)

\* The document q is the operation `kind`, named after the path's last
\* segment; its block holds the parents of the path, first to last, as bare
\* containers, then the last segment, which alone carries the variable
\* usages (one per argument) and whatever selection there is, then nothing
\* but the closing of the parents.
nestsAlongPath(q, kind, fieldPath, field) ==
    LET pathParts == Split(fieldPath)
        n == Len(pathParts)
        last == pathParts[n]
        h == indexOf(q, "{", 1)
        body == SubSeq(q, h + 1, Len(q) - 1)
        open == openParents(pathParts, 1)
        leaf == SubSeq(body, Len(open) + 1, Len(body) - (n - 1))
    IN /\ h > 0 /\ q[Len(q)] = "}"
       /\ SubSeq(q, 1, 1 + Len(last)) = <<kind>> \o last
       /\ occurrences(SubSeq(q, 1, h - 1), "$") = Len(field.args)
       /\ SubSeq(body, 1, Len(open)) = open
       /\ \A k \in (Len(body) - (n - 1) + 1)..Len(body) : body[k] = "}"
       /\ SubSeq(leaf, 1, Len(last)) = last
       /\ occurrences(leaf, "$") = Len(field.args)
       /\ occurrences(leaf, "{") = occurrences(leaf, "}")
       /\ leaf[Len(leaf)] # "{"

\* C16: for a path of one or more segments the document sent is named after
\* the last segment, the variable usages and the selection stand on the last
\* segment only, and the parents wrap it as bare containers in path order.
C16_QueryNestsAlongPath ==
    \A i \in 1..Len(calls) :
        nestsAlongPath(calls[i].query, toolOf(calls[i]).kind,
                       toolOf(calls[i]).fieldPath, toolOf(calls[i]).field)

\* The tool of api.widgets.get was invoked and sent
\* query get($id: ID!) { api { widgets { get(id: $id) { ... } } } }.
C16_ThreeSegmentsSent ==
    \E i \in 1..Len(calls) :
        /\ toolOf(calls[i]).fieldPath = pApiWidgetsGet
        /\ SubSeq(calls[i].query, 1, 22) =
              <<"query", "get", "(", "$", "id", ":", "ID", "!", ")", "{",
                "api", "{", "widgets", "{", "get", "(", "id", ":", "$", "id", ")", "{">>
        /\ SubSeq(calls[i].query, Len(calls[i].query) - 3, Len(calls[i].query)) =
              <<"}", "}", "}", "}">>

\* The declared type is an InputObject or a List, required or not.
declaredInputObjectOrList(t) ==
    LET nullable == IF isNonNullType(t) THEN ofType(t) ELSE t
    IN isInputObjectType(nullable) \/ isListType(nullable)

\* C17: a string handed over for an argument declared as an InputObject or
\* as a List (a list of scalars too) is decoded as JSON before it is sent;
\* when it is no JSON the string itself is passed on.
C17_JsonStringDecoded ==
    ("parseArgumentValue" \in probe.applied
        /\ probe.value.js = "string"
        /\ declaredInputObjectOrList(probe.type))
    => probe.parsed = IF probe.value.isJson THEN JsonParsed(probe.value) ELSE probe.value

\* The category prefix followed by the path with "_" for every ".".
bareName(kind, fieldPath) ==
    (IF kind = "query" THEN argv.queryPrefix ELSE argv.mutationPrefix)
        \o [k \in 1..Len(fieldPath) |-> IF fieldPath[k] = "." THEN "_" ELSE fieldPath[k]]

\* C18: a query tool is named by its prefix and its path with "_" for ".";
\* a mutation tool is named the same way, and carries the suffix _mutation
\* exactly when that name was registered before it; where a configured
\* mutation derives the name of a registered query, the query has the bare
\* name and the mutation is registered under the suffixed one (unless a
\* query already holds the suffixed name too).
C18_ToolNamesAndCollisions ==
    /\ \A i \in 1..Len(tools) :
          tools[i].name =
              IF tools[i].kind = "mutation"
                 /\ \E j \in 1..(i - 1) :
                       tools[j].name = bareName("mutation", tools[i].fieldPath)
              THEN bareName("mutation", tools[i].fieldPath) \o <<"_", "mutation">>
              ELSE bareName(tools[i].kind, tools[i].fieldPath)
    /\ listsWereProcessed =>
          \A m \in 1..Len(exposedConfig.mutations.items) :
             LET fieldPath == exposedConfig.mutations.items[m]
             IN (resolves(schema, "mutation", fieldPath)
                   /\ \E q \in 1..Len(tools) :
                         /\ tools[q].kind = "query"
                         /\ tools[q].name = bareName("mutation", fieldPath))
                => \/ \E t \in 1..Len(tools) :
                         /\ tools[t].kind = "mutation"
                         /\ tools[t].fieldPath = fieldPath
                         /\ tools[t].name =
                               bareName("mutation", fieldPath) \o <<"_", "mutation">>
                   \/ queryHolds(bareName("mutation", fieldPath) \o <<"_", "mutation">>)

\* Under one prefix for both categories the query api.get is q_api_get, the
\* query getUser is q_getUser, the mutation getUser is q_getUser_mutation and
\* the mutation createUser is q_createUser.
C18_CollisionAndNoCollision ==
    /\ pc = "running"
    /\ \E a, b, c, d \in 1..Len(tools) :
          /\ tools[a].kind = "query" /\ tools[a].fieldPath = pApiGet
          /\ tools[a].name = <<"q", "_", "api", "_", "get">>
          /\ tools[b].kind = "query" /\ tools[b].name = <<"q", "_", "getUser">>
          /\ tools[c].kind = "mutation" /\ tools[c].fieldPath = pGetUser
          /\ tools[c].name = <<"q", "_", "getUser", "_", "mutation">>
          /\ tools[d].kind = "mutation" /\ tools[d].name = <<"q", "_", "createUser">>

\* What reading a text as GraphQL type syntax gives when it is none.
Malformed == [wrappers |-> <<"MALFORMED">>, name |-> "?"]

RECURSIVE parseTypeSyntax(_)
\* The TypeRef a text of GraphQL type syntax denotes: T! is NonNull of T,
\* [T] is List of T, a single name is the named type.
parseTypeSyntax(text) ==
    IF text = <<>> THEN Malformed
    ELSE IF text[Len(text)] = "!"
    THEN LET inner == parseTypeSyntax(SubSeq(text, 1, Len(text) - 1))
         IN IF inner = Malformed \/ isNonNullType(inner) THEN Malformed ELSE NonNull(inner)
    ELSE IF text[1] = "[" /\ text[Len(text)] = "]"
    THEN LET inner == parseTypeSyntax(SubSeq(text, 2, Len(text) - 1))
         IN IF inner = Malformed THEN Malformed ELSE List(inner)
    ELSE IF Len(text) = 1 /\ text[1] \notin {"[", "]", "!"} THEN Named(text[1])
    ELSE Malformed

\* C19: the text getTypeDescription gives for a chain of List / NonNull
\* wrappers over a Scalar, Enum, Object or InputObject type, read back as
\* GraphQL type syntax, is the TypeRef it was given for.
C19_RenderRoundTrips ==
    "getTypeDescription" \in probe.applied => parseTypeSyntax(probe.rendered) = probe.type

\* A required list of required input objects was rendered as [UserInput!]!.
C19_NestedChainRendered ==
    /\ "getTypeDescription" \in probe.applied
    /\ probe.type = NonNull(List(NonNull(Named("UserInput"))))
    /\ probe.rendered = <<"[", "UserInput", "!", "]", "!">>

\* C20: getBaseType takes off every NonNull and List wrapper: what it returns
\* is the named type of the chain and never a wrapper.
C20_UnwrapStripsEveryWrapper ==
    "getBaseType" \in probe.applied =>
        /\ ~isNonNullType(probe.base) /\ ~isListType(probe.base)
        /\ probe.base = Named(probe.type.name)

\* A list of required lists of an enum was unwrapped to the enum.
C20_NestedListsUnwrapped ==
    /\ "getBaseType" \in probe.applied
    /\ probe.type = List(NonNull(List(Named("Role"))))
    /\ probe.base = Named("Role")

\* The rule built for the one argument of the type at hand.
builtRule == probe.inputSchema[<<"arg">>]

\* C21: the rule of an argument is an array rule exactly when the argument's
\* type is a List, directly or under one outer NonNull, and it is optional
\* exactly when the outermost wrapper is not NonNull; a required argument is
\* never optional.
C21_ArrayAndOptionalFollowWrappers ==
    "generateInputSchema" \in probe.applied =>
        LET w == probe.type.wrappers
        IN /\ builtRule.array <=>
                 \/ (Len(w) >= 1 /\ w[1] = "LIST")
                 \/ (Len(w) >= 2 /\ w[1] = "NON_NULL" /\ w[2] = "LIST")
           /\ builtRule.optional <=> (Len(w) = 0 \/ w[1] # "NON_NULL")

\* A required list of required strings got an array rule that is not optional.
C21_RequiredListBuilt ==
    /\ "generateInputSchema" \in probe.applied
    /\ probe.type = NonNull(List(NonNull(Named("String"))))
    /\ builtRule.array /\ ~builtRule.optional

\* C22: the element rule follows the named type under all wrappers: Int an
\* integer rule, Float a number rule, String and ID a string rule, Boolean a
\* boolean rule, an Enum the closed set of exactly its value names (a string
\* rule when it has none), anything else the untyped rule.
C22_ElementRuleFollowsBaseType ==
    "generateInputSchema" \in probe.applied =>
        LET n == probe.type.name
            e == builtRule.element
        IN CASE n = "Int" -> e.rule = "int"
             [] n = "Float" -> e.rule = "number"
             [] n \in {"String", "ID"} -> e.rule = "string"
             [] n = "Boolean" -> e.rule = "boolean"
             [] n = "Role" -> e.rule \in {"enum", "literal"} /\ e.values = {"ADMIN", "USER"}
             [] n = "Unit" -> e.rule \in {"enum", "literal"} /\ e.values = {"ONLY"}
             [] n = "Empty" -> e.rule = "string"
             [] OTHER -> e.rule = "any"

\* A list of a two-valued enum, an Int and a custom scalar each got their rule.
C22_EnumRuleBuilt ==
    /\ "generateInputSchema" \in probe.applied
    /\ probe.type = List(NonNull(Named("Role")))
    /\ builtRule.element = ZodRule("enum", {"ADMIN", "USER"})

\* C23 as stated: for a missing type, getBaseType, isListTypeCheck and
\* getTypeDescription each answer with a sentinel "unknown" that is none of
\* their proper results.
C23_NullGivesUnknown ==
    probe.type = Named("null") =>
        /\ "getBaseType" \in probe.applied => probe.base = Named("unknown")
        /\ "isListTypeCheck" \in probe.applied => probe.listLike \notin BOOLEAN
        /\ "getTypeDescription" \in probe.applied => probe.rendered = <<"unknown">>

\* C23: for a missing type none of the three fails: getBaseType returns
\* null, isListTypeCheck returns false and getTypeDescription returns the
\* text "null".
C23_NullGivesNullFalseAndText ==
    probe.type = Named("null") =>
        /\ "getBaseType" \in probe.applied => probe.base = Named("null")
        /\ "isListTypeCheck" \in probe.applied => probe.listLike = FALSE
        /\ "getTypeDescription" \in probe.applied => probe.rendered = <<"null">>

\* getTypeDescription was applied to a missing type and returned.
C23_NullRendered ==
    /\ probe.type = Named("null")
    /\ "getTypeDescription" \in probe.applied
    /\ probe.rendered # <<>>
\* ---- C24
\* The field map a path's i-th segment is looked up in: the query root for the
\* first, then the fields of the previous segment's named type when that
\* segment names a field of Object type, and no fields at all otherwise.
RECURSIVE levelOf(_, _)
levelOf(parts, i) ==
    IF i = 1 THEN queryFields("v1")
    ELSE LET above == levelOf(parts, i - 1)
         IN IF parts[i - 1] \in DOMAIN above
               /\ above[parts[i - 1]].type.name \in ObjectTypeNames
            THEN getFields(Named(above[parts[i - 1]].type.name))
            ELSE << >>

everySegmentResolves(parts) ==
    \A i \in 1..Len(parts) :
        /\ parts[i] \in DOMAIN levelOf(parts, i)
        /\ i < Len(parts) => levelOf(parts, i)[parts[i]].type.name \in ObjectTypeNames

\* C24: path resolution returns the terminal field exactly when every segment
\* names a field at its level and every non-terminal segment's unwrapped type
\* is an Object type, and "not found" otherwise; whether a non-terminal
\* segment takes arguments plays no part.
C24_PathResolvesIffEverySegmentDoes ==
    "getNestedField" \in probe.applied =>
        LET parts == Split(probe.path)
        IN IF everySegmentResolves(parts)
           THEN probe.resolved = levelOf(parts, Len(parts))[parts[Len(parts)]]
           ELSE probe.resolved = NoField

\* getUser takes a required argument and is passed through to reach friend.
C24_ResolvedThroughArgumentField ==
    /\ "getNestedField" \in probe.applied
    /\ probe.path = <<"getUser", ".", "friend">>
    /\ probe.resolved = UserFields[nFriend]

\* ---- C25
\* C25: each tool invocation issues exactly one upstream request; an
\* invocation whose upstream call failed stays failed and is never followed
\* by a second request.
C25_OneUpstreamRequestPerInvocation ==
    [][\A i \in 1..Len(calls') :
          /\ calls'[i].requests = 1
          /\ (i <= Len(calls) /\ calls[i].state = "failed") => calls'[i] = calls[i]]_vars

\* An invocation has failed on its one request.
C25_FailedAfterOneRequest ==
    \E i \in 1..Len(calls) : calls[i].state = "failed" /\ calls[i].requests = 1

\* ---- C27
\* The number of indent units that stand directly before position k of a text.
RECURSIVE indentBefore(_, _)
indentBefore(text, k) ==
    IF k > 1 /\ text[k - 1] = "  " THEN 1 + indentBefore(text, k - 1) ELSE 0

\* The positions at which the header of an input object's description opens.
headerPositions(text) ==
    {k \in 1..(Len(text) - 3) :
        /\ text[k] = "**"
        /\ text[k + 1] \in InputObjectTypeNames
        /\ text[k + 3] = "Input Object:"}

\* The nesting depth of the description whose header opens at position k.
headerDepth(text, k) == indentBefore(text, k) - 1

\* C27: the argument documentation is produced (a finite text) for every
\* argument type, input objects that refer to themselves or to each other
\* included, and no input object is described deeper than depth 3.
C27_DocumentationDepthCapped ==
    "generateArgumentDocumentation" \in probe.applied =>
        /\ Len(probe.documentation) > 0
        /\ \A k \in headerPositions(probe.documentation) :
              headerDepth(probe.documentation, k) \in 0..3
        /\ isInputObjectType(getBaseType(probe.type)) <=>
              headerPositions(probe.documentation) # {}

\* A self-referring input object was described down to the cap.
C27_DescribedDownToCap ==
    /\ "generateArgumentDocumentation" \in probe.applied
    /\ probe.type = Named("UserInput")
    /\ \E k \in headerPositions(probe.documentation) :
          headerDepth(probe.documentation, k) = 3

valueInQuery(value, query) == \E k \in 1..Len(query) : query[k] = value.text

\* C30: the query text a tool sends depends only on the operation captured at
\* registration: two invocations of one tool send the same text whatever
\* values they are given, the text holds no value, and every value is found
\* among the variables.
C30_QueryTextIgnoresValues ==
    "executor" \in probe.applied =>
        /\ probe.sent.query = probe.sentAgain.query
        /\ probe.sent.query = composeQuery(probe.kind, probe.path, probe.resolved)
        /\ \A v \in ArgValues : ~valueInQuery(v, probe.sent.query)
        /\ \A n \in DOMAIN probe.sent.variables :
              /\ probe.sent.variables[n].text = probe.value.text
              /\ probe.sentAgain.variables[n].text \in {v.text : v \in ArgValues}
        /\ DOMAIN probe.sent.variables =
              {probe.resolved.args[j].name : j \in 1..Len(probe.resolved.args)}

\* One tool was invoked with two different values and sent one query text.
C30_TwoValuesOneQuery ==
    /\ "executor" \in probe.applied
    /\ probe.resolved.args # NoArgs
    /\ probe.sent.variables # probe.sentAgain.variables
    /\ probe.sent.query = probe.sentAgain.query
    /\ probe.sent.query # <<>>

\* ---- C26
\* The request carries `Authorization: Bearer <AUTH_TOKEN>`.
bearsToken(req) == req.authorization = <<"Bearer ", authToken.text>>

\* C26: with AUTH_TOKEN set, a request that does not carry
\* `Authorization: Bearer <AUTH_TOKEN>` is answered 401 and reaches no route
\* handler and no transport; with AUTH_TOKEN not set, no request is refused
\* for its credentials.
C26_UnauthorizedGets401 ==
    exchange.received =>
        IF authToken.set
        THEN ~bearsToken(exchange.req) =>
                 /\ exchange.status = 401
                 /\ exchange.handler = "none"
                 /\ exchange.transport = NoTransport
        ELSE exchange.status # 401

\* With a non-empty AUTH_TOKEN, a request without the token reaches no route
\* handler and no transport, whatever its answer is.
UnauthorizedNeverHandled ==
    (exchange.received /\ authInstalled(authToken) /\ ~bearsToken(exchange.req)) =>
        /\ exchange.status \in {400, 401}
        /\ exchange.handler = "none"
        /\ exchange.transport = NoTransport

\* ---- C29
\* C29: a session ID is mapped only to a transport created for it, a request
\* with a mapped session ID is handled by the mapped transport, and a mapping
\* goes away only when the transport it names closes: no close removes the
\* mapping of another transport that is still open.
C29_CloseRemovesOwnMappingOnly ==
    [][/\ \A s \in SessionIds :
             transports'[s] # NoTransport => sessions'[transports'[s]].sessionId = s
       /\ \A s \in SessionIds :
             (transports[s] # NoTransport /\ sessions' = sessions
                  /\ exchange' # exchange
                  /\ exchange'.req.sessionId = s /\ exchange'.handler = "post")
                 => exchange'.transport = transports[s]
       /\ \A s \in SessionIds :
             (transports[s] # NoTransport /\ transports'[s] = NoTransport)
                 => sessions'[transports[s]].state = "closed"]_vars

====
